---- MODULE Spec2Model ----
(***************************************************************************)
(* Smooth-quant transform engine of neural_compressor                      *)
(* (torch/algorithms/smooth_quant/utility.py): cal_scale, model_forward,   *)
(* the Calibration hook and TorchSmoothQuant.transform / revert.           *)
(*                                                                         *)
(* Tensors are functions from channel (and row) names to numbers.  A       *)
(* number is an exact rational or one of the IEEE special values that the  *)
(* tensor arithmetic of the program produces (inf, nan).                   *)
(***************************************************************************)
EXTENDS Integers, Sequences, FiniteSets, TLC

----------------------------------------------------------------------------
(* Numbers: [k |-> "fin", n |-> numerator, d |-> denominator > 0] in lowest *)
(* terms, [k |-> "inf", n |-> sign, d |-> 0], [k |-> "nan", n |-> 0, d |-> 0] *)

RECURSIVE GCD(_, _)
GCD(a, b) == IF b = 0 THEN a ELSE GCD(b, a % b)

AbsInt(i) == IF i < 0 THEN -i ELSE i

SignInt(i) == IF i < 0 THEN -1 ELSE 1

Fin(n, d) ==
    LET s == IF d < 0 THEN -1 ELSE 1
        g == GCD(AbsInt(n), AbsInt(d))
    IN  [k |-> "fin", n |-> (s * n) \div g, d |-> (s * d) \div g]

Inf(s) == [k |-> "inf", n |-> s, d |-> 0]

NaN == [k |-> "nan", n |-> 0, d |-> 0]

Zero == Fin(0, 1)

One == Fin(1, 1)

IsZero(a) == a.k = "fin" /\ a.n = 0

IsFinite(a) == a.k = "fin"

\* elementwise tensor product
Mul(a, b) ==
    IF a.k = "nan" \/ b.k = "nan" THEN NaN
    ELSE IF a.k = "inf" \/ b.k = "inf"
         THEN IF IsZero(a) \/ IsZero(b) THEN NaN
              ELSE Inf(SignInt(a.n) * SignInt(b.n))
         ELSE Fin(a.n * b.n, a.d * b.d)

\* elementwise tensor quotient
Div(a, b) ==
    IF a.k = "nan" \/ b.k = "nan" THEN NaN
    ELSE IF a.k = "inf"
         THEN IF b.k = "inf" THEN NaN ELSE Inf(SignInt(a.n) * SignInt(b.n))
         ELSE IF b.k = "inf" THEN Zero
              ELSE IF b.n = 0
                   THEN IF a.n = 0 THEN NaN ELSE Inf(SignInt(a.n))
                   ELSE Fin(a.n * b.d, a.d * b.n)

\* elementwise tensor sum
AddN(a, b) ==
    IF a.k = "nan" \/ b.k = "nan" THEN NaN
    ELSE IF a.k = "inf"
         THEN IF b.k = "inf" /\ b.n # a.n THEN NaN ELSE a
         ELSE IF b.k = "inf" THEN b
              ELSE Fin(a.n * b.d + b.n * a.d, a.d * b.d)

\* elementwise tensor difference
SubN(a, b) == AddN(a, Mul(Fin(-1, 1), b))

\* a < b for numbers that are not nan
Less(a, b) ==
    IF a.k = "inf" THEN a.n < 0 /\ ~(b.k = "inf" /\ b.n < 0)
    ELSE IF b.k = "inf" THEN b.n > 0
         ELSE a.n * b.d < b.n * a.d

\* torch.abs
AbsN(a) == IF a.k = "nan" THEN NaN ELSE [a EXCEPT !.n = AbsInt(a.n)]

\* torch.max of two values (nan propagates)
MaxN(a, b) ==
    IF a.k = "nan" \/ b.k = "nan" THEN NaN
    ELSE IF Less(a, b) THEN b ELSE a

\* torch.min of two values (nan propagates)
MinN(a, b) ==
    IF a.k = "nan" \/ b.k = "nan" THEN NaN
    ELSE IF Less(b, a) THEN b ELSE a

\* torch.clip(x, min=lo)
ClipMin(x, lo) == IF x.k = "nan" THEN NaN ELSE MaxN(x, lo)

\* integer square root of a perfect square
ISqrt(i) == CHOOSE r \in 0..i : r * r = i

\* torch.pow(x, alpha) for x >= 0; alpha is counted in halves (0, 0.5, 1.0)
PowN(x, halves) ==
    IF halves = 0 THEN One
    ELSE IF halves = 2 THEN x
    ELSE IF x.k = "nan" THEN NaN
    ELSE IF x.k = "inf" THEN (IF x.n > 0 THEN x ELSE NaN)
    ELSE IF x.n < 0 THEN NaN
    ELSE Fin(ISqrt(x.n), ISqrt(x.d))

----------------------------------------------------------------------------
(* The model under transformation: a LayerNorm "norm" (elementwise affine) *)
(* whose output feeds the Linear layer "fc".                               *)

Channels == {"c0", "c1"}

Rows == {"r0", "r1"}

Layers == {"norm", "fc"}

LayerType == [l \in Layers |-> IF l = "norm" THEN "LayerNorm" ELSE "Linear"]

\* python None
None == [none |-> TRUE]

\* python {}
EmptyDict == <<>>

\* the 1e-5 lower clip of cal_scale
Eps == Fin(1, 100000)

RECURSIVE ReduceMax(_)
ReduceMax(S) ==
    LET x == CHOOSE y \in S : TRUE
    IN  IF S = {x} THEN x ELSE MaxN(x, ReduceMax(S \ {x}))

RECURSIVE ReduceMin(_)
ReduceMin(S) ==
    LET x == CHOOSE y \in S : TRUE
    IN  IF S = {x} THEN x ELSE MinN(x, ReduceMin(S \ {x}))

\* torch.max(torch.abs(torch.cat(weights, dim=0)), dim=0)[0]
WeightMax(weights) ==
    [c \in Channels |-> ReduceMax({AbsN(weights[r][c]) : r \in DOMAIN weights})]

\* cal_scale for one channel, given the channel's input max and weight max
cal_scale_channel(input_max, weight_max, alpha) ==
    LET input_power == PowN(input_max, alpha)
        weight_power == PowN(weight_max, 2 - alpha)
        clipped == ClipMin(Div(input_power, weight_power), Eps)
        s1 == IF IsZero(input_power) THEN One ELSE clipped
    IN  IF IsZero(weight_power) THEN Zero ELSE s1

cal_scale(input_max, weights, alpha) ==
    LET weight_max == WeightMax(weights)
    IN  [c \in Channels |-> cal_scale_channel(input_max[c], weight_max[c], alpha)]

----------------------------------------------------------------------------
(* model_forward: a data source is a sequence of batches; a batch is       *)
(* [pair |-> it unpacks as (input, label), act |-> rows seen at the input  *)
(* of the hooked layer].  The result is the sequence of batches on which a *)
(* forward pass ran, in order.                                             *)

RECURSIVE ForwardBare(_, _, _, _)
ForwardBare(dataloader, iters, idx, cnt) ==
    IF idx > Len(dataloader) THEN <<>>
    ELSE IF iters # -1 /\ cnt + 1 >= iters THEN <<dataloader[idx]>>
    ELSE <<dataloader[idx]>> \o ForwardBare(dataloader, iters, idx + 1, cnt + 1)

RECURSIVE ForwardPairs(_, _, _, _)
ForwardPairs(dataloader, iters, idx, cnt) ==
    IF idx > Len(dataloader) THEN <<>>
    ELSE IF ~dataloader[idx].pair THEN ForwardBare(dataloader, iters, 1, 0)
    ELSE IF iters # -1 /\ cnt + 1 >= iters THEN <<dataloader[idx]>>
    ELSE <<dataloader[idx]>> \o ForwardPairs(dataloader, iters, idx + 1, cnt + 1)

model_forward(dataloader, iters) == ForwardPairs(dataloader, iters, 1, 0)

----------------------------------------------------------------------------
(* Calibration                                                             *)

\* save_input_hook with the running maximum replaced by the newest batch's
save_input_hook_overwrite(st, name, input) ==
    LET max_tensor == [c \in Channels |-> ReduceMax({input[i][c] : i \in DOMAIN input})]
        min_tensor == [c \in Channels |-> ReduceMin({input[i][c] : i \in DOMAIN input})]
    IN  IF name \notin DOMAIN st.input_maxes
        THEN [input_mins |-> st.input_mins @@ (name :> min_tensor),
              input_maxes |-> st.input_maxes @@ (name :> max_tensor)]
        ELSE [input_mins |-> [st.input_mins EXCEPT ![name] =
                                 [c \in Channels |-> MinN(@[c], min_tensor[c])]],
              input_maxes |-> [st.input_maxes EXCEPT ![name] = max_tensor]]

\* the hook returned by Calibration._save_input_pc_hook(name), applied to
\* one input of the hooked module; st is [input_mins, input_maxes]
save_input_hook(st, name, input) ==
    LET max_tensor == [c \in Channels |-> ReduceMax({input[i][c] : i \in DOMAIN input})]
        min_tensor == [c \in Channels |-> ReduceMin({input[i][c] : i \in DOMAIN input})]
    IN  IF name \notin DOMAIN st.input_maxes
        THEN [input_mins |-> st.input_mins @@ (name :> min_tensor),
              input_maxes |-> st.input_maxes @@ (name :> max_tensor)]
        ELSE [input_mins |-> [st.input_mins EXCEPT ![name] =
                                 [c \in Channels |-> MinN(@[c], min_tensor[c])]],
              input_maxes |-> [st.input_maxes EXCEPT ![name] =
                                 [c \in Channels |-> MaxN(@[c], max_tensor[c])]]]

\* the modules calibrate() hooks: isinstance(module, tuple(op_types))
HookModules(op_types) == {l \in Layers : LayerType[l] \in op_types}

RECURSIVE RunHooks(_, _, _)
RunHooks(st, names, input) ==
    IF names = {} THEN st
    ELSE LET name == CHOOSE x \in names : TRUE
         IN  RunHooks(save_input_hook(st, name, input), names \ {name}, input)

RECURSIVE FeedBatches(_, _, _)
FeedBatches(st, names, batches) ==
    IF batches = <<>> THEN st
    ELSE FeedBatches(RunHooks(st, names, Head(batches).act), names, Tail(batches))

\* Calibration._dump_min_max: the batches a calibration run forwards
dump_min_max(dataloader, q_func, calib_iter) ==
    IF q_func THEN dataloader ELSE model_forward(dataloader, calib_iter)

\* Calibration.calibrate: [input_mins, input_maxes, passes]
calibrate(dataloader, q_func, calib_iter, op_types) ==
    LET forwarded == dump_min_max(dataloader, q_func, calib_iter)
        st == FeedBatches([input_mins |-> EmptyDict, input_maxes |-> EmptyDict],
                          HookModules(op_types), forwarded)
    IN  [input_mins |-> st.input_mins, input_maxes |-> st.input_maxes,
         passes |-> Len(forwarded)]

----------------------------------------------------------------------------
(* TorchSmoothQuant.  A call is evaluated on a context                     *)
(*   [model, sq, exc, passes, ret, warned]                                  *)
(* model : the torch model (weights, wrapper of "fc", optimized flag)       *)
(* sq    : the fields of the TorchSmoothQuant object                        *)
(* exc   : the exception that ended the call, "none" if it returned         *)
(* passes: calibration forward passes run during the call                   *)
(* ret   : what the call returned                                           *)
(* warned: the call logged that the output changed under the transform      *)

\* 1.0 / scale, elementwise
Recip(scale) == [c \in Channels |-> Div(One, scale[c])]

\* dict.update
DictUpdate(d, other) == other @@ d

\* the dict without the keys outside keep
DictRestrict(d, keep) == [k \in (DOMAIN d) \cap keep |-> d[k]]

\* all layer names listed in the values of an absorb_to_layer dict
ListedLayers(d) == UNION {{d[k][i] : i \in 1..Len(d[k])} : k \in DOMAIN d}

Raise(cx, e) == [cx EXCEPT !.exc = e]

\* SQLinearWrapper.__init__ on "fc": _calculate_qparams reads input_minmax[0],
\* then _update_sq_linear divides the weight by input_scale
SQLinearWrapper(cx, input_scale, has_input_minmax) ==
    IF ~has_input_minmax THEN Raise(cx, "TypeError")
    ELSE [cx EXCEPT !.model.fc_wrapper = [input_scale |-> input_scale],
                    !.model.fc_weight =
                        [r \in Rows |-> [c \in Channels |-> Div(@[r][c], input_scale[c])]]]

\* SQLinearWrapper._recover_sq_linear followed by set_module(..., layer.sq_linear)
recover_sq_linear(cx) ==
    LET input_scale == cx.model.fc_wrapper.input_scale
    IN  [cx EXCEPT !.model.fc_wrapper = None,
                   !.model.fc_weight =
                       [r \in Rows |-> [c \in Channels |-> Mul(@[r][c], input_scale[c])]]]

\* _scale_layer_weight that wraps the layer in either mode
_scale_layer_weight_wrap(cx, layer_name, scale, has_input_minmax) ==
    IF cx.model.fc_wrapper # None
    THEN recover_sq_linear(cx)
    ELSE SQLinearWrapper(cx, Recip(scale), has_input_minmax)

\* TorchSmoothQuant._scale_layer_weight (layer_name is a Linear layer)
_scale_layer_weight(cx, layer_name, scale, has_input_minmax) ==
    IF cx.sq.insert_mul
    THEN IF cx.model.fc_wrapper # None
         THEN recover_sq_linear(cx)
         ELSE SQLinearWrapper(cx, Recip(scale), has_input_minmax)
    ELSE IF cx.sq.allow_absorb
         THEN IF cx.model.fc_wrapper # None
              THEN Raise(cx, "KeyError")   \* layer.weight = Parameter(...) on the wrapper
              ELSE [cx EXCEPT !.model.fc_weight =
                       [r \in Rows |-> [c \in Channels |-> Mul(@[r][c], scale[c])]]]
         ELSE cx

\* TorchSmoothQuant._absorb_scales
_absorb_scales(cx, layer_name, scale) ==
    IF cx.sq.insert_mul \/ ~cx.sq.allow_absorb THEN cx
    ELSE IF LayerType[layer_name] = "LayerNorm"
         THEN [cx EXCEPT !.model.norm_weight = [c \in Channels |-> Mul(@[c], scale[c])],
                         !.model.norm_bias = [c \in Channels |-> Mul(@[c], scale[c])]]
         ELSE Raise(cx, "RuntimeError")  \* scale.view(out, 1) on a per-input-channel scale

RECURSIVE RevertWeights(_, _)
RevertWeights(cx, keys) ==
    IF keys = {} \/ cx.exc # "none" THEN cx
    ELSE LET key == CHOOSE k \in keys : TRUE
         IN  RevertWeights(
                 _scale_layer_weight(cx, key, Recip(cx.sq.weight_scale_info[key]), FALSE),
                 keys \ {key})

RECURSIVE RevertAbsorb(_, _)
RevertAbsorb(cx, keys) ==
    IF keys = {} \/ cx.exc # "none" THEN cx
    ELSE LET key == CHOOSE k \in keys : TRUE
         IN  RevertAbsorb(
                 _absorb_scales(cx, key, Recip(cx.sq.absorb_scales_info[key])),
                 keys \ {key})

\* a revert that keeps the recorded scales
RevertClear_keep(cx) == cx

\* the end of TorchSmoothQuant.revert: both scale dicts are emptied
RevertClear(cx) ==
    IF cx.exc # "none" THEN cx
    ELSE [cx EXCEPT !.sq.weight_scale_info = EmptyDict,
                    !.sq.absorb_scales_info = EmptyDict]

\* TorchSmoothQuant.revert
revert(cx) ==
    RevertClear(RevertAbsorb(RevertWeights(cx, DOMAIN cx.sq.weight_scale_info),
                             DOMAIN cx.sq.absorb_scales_info))

\* _check_need_calibration that also asks for an unchanged alpha
_check_need_calibration_alpha(sq, alpha, percentile, op_types, scales_per_op, calib_iter) ==
    LET stored == [sq EXCEPT !.alpha = alpha, !.percentile = percentile,
                             !.op_types = op_types, !.scales_per_op = scales_per_op,
                             !.calib_iter = calib_iter]
    IN  IF sq.input_maxes = EmptyDict
        THEN [sq |-> stored, need_calib |-> TRUE]
        ELSE [sq |-> stored,
              need_calib |-> ~(/\ sq.alpha = alpha
                               /\ sq.percentile = percentile
                               /\ sq.op_types = op_types
                               /\ sq.scales_per_op = scales_per_op
                               /\ sq.calib_iter = calib_iter)]

\* TorchSmoothQuant._check_need_calibration for a float alpha on a model that
\* is not a PeftModel: [sq |-> the object afterwards, need_calib |-> result]
_check_need_calibration(sq, alpha, percentile, op_types, scales_per_op, calib_iter) ==
    LET stored == [sq EXCEPT !.alpha = alpha, !.percentile = percentile,
                             !.op_types = op_types, !.scales_per_op = scales_per_op,
                             !.calib_iter = calib_iter]
    IN  IF sq.input_maxes = EmptyDict      \* the first time
        THEN [sq |-> stored, need_calib |-> TRUE]
        ELSE [sq |-> stored,
              need_calib |-> ~(/\ sq.percentile = percentile
                               /\ sq.op_types = op_types
                               /\ sq.scales_per_op = scales_per_op
                               /\ sq.calib_iter = calib_iter)]

\* get_absorb_to_layer that reports a failed trace as an empty map
get_absorb_to_layer_empty(traceable, op_types) ==
    IF ~traceable THEN EmptyDict
    ELSE IF "Linear" \in op_types THEN ("norm" :> <<"fc">>) ELSE EmptyDict

\* GraphTrace.get_absorb_to_layer on the norm -> fc model: None when
\* torch.jit.trace fails, else the aten::linear node "fc" under "norm"
get_absorb_to_layer(traceable, op_types) ==
    IF ~traceable THEN None
    ELSE IF "Linear" \in op_types THEN ("norm" :> <<"fc">>) ELSE EmptyDict

\* TorchSmoothQuant._get_all_layer_names
_get_all_layer_names == [l \in {x \in Layers : LayerType[x] = "Linear"} |-> <<l>>]

\* "use one input for qkv": regroup the self-absorbing layers by traced group
RECURSIVE GroupModules(_, _, _)
GroupModules(self_absorb_layers, group_modules, keys) ==
    IF keys = {} THEN self_absorb_layers
    ELSE LET k == CHOOSE x \in keys : TRUE
             v == group_modules[k]
             popped == DictRestrict(self_absorb_layers,
                                    (DOMAIN self_absorb_layers) \ {v[i] : i \in 1..Len(v)})
         IN  GroupModules(DictUpdate(popped, v[1] :> v), group_modules, keys \ {k})

\* TorchSmoothQuant._parse_absorb_to_layers; env is [dataloader, q_func, traceable]
_parse_absorb_to_layers(cx, env, op_types, folding) ==
    LET sq == cx.sq
        group_modules == get_absorb_to_layer(env.traceable, op_types)
        grouped == IF ~sq.insert_mul THEN EmptyDict
                   ELSE IF group_modules = None THEN _get_all_layer_names
                   ELSE GroupModules(_get_all_layer_names, group_modules,
                                     DOMAIN group_modules)
        traced == get_absorb_to_layer(env.traceable, op_types)
        absorb0 == IF sq.allow_absorb THEN traced ELSE sq.absorb_to_layer
    IN  IF sq.allow_absorb /\ traced = None
        THEN [cx EXCEPT !.sq.absorb_to_layer = None]
        ELSE IF absorb0 = None
        THEN Raise(cx, "AttributeError")     \* None.items()
        ELSE
        LET self_absorb_layers ==
                DictRestrict(grouped, (DOMAIN grouped) \ ListedLayers(absorb0))
            absorb1 == DictUpdate(absorb0, self_absorb_layers)
            c1 == [cx EXCEPT !.sq.absorb_to_layer = absorb1]
        IN  IF ~folding /\ sq.need_calibration
            THEN IF sq.input_mins = EmptyDict
                 THEN LET cal == calibrate(env.dataloader, env.q_func, 1, op_types)
                          absorb2 == DictRestrict(absorb1, DOMAIN cal.input_mins)
                      IN  [c1 EXCEPT !.sq.input_mins = cal.input_mins,
                                     !.sq.input_maxes = cal.input_maxes,
                                     !.sq.absorb_to_layer = absorb2,
                                     !.passes = @ + cal.passes]
                 ELSE Raise(c1, "UnboundLocalError")   \* input_mins was never assigned
            ELSE c1

\* torch.max(torch.abs(input_mins[key]), torch.abs(input_maxes[key])) per key
InputMaxesAbs(input_mins, input_maxes) ==
    [key \in DOMAIN input_mins |->
        [c \in Channels |-> MaxN(AbsN(input_mins[key][c]), AbsN(input_maxes[key][c]))]]

\* reshape_in_channel_to_last of the listed layers, concatenated on dim 0
LayerWeights(model, layer_names) == model.fc_weight

\* TorchSmoothQuant._cal_scales: [exc, absorb_scales_info, weight_scales_info]
_cal_scales(model, absorb_to_layer, input_maxes, alpha) ==
    IF \E key \in DOMAIN absorb_to_layer : absorb_to_layer[key][1] \notin DOMAIN input_maxes
    THEN [exc |-> "KeyError", absorb_scales_info |-> EmptyDict,
          weight_scales_info |-> EmptyDict]
    ELSE LET scale(key) == cal_scale(input_maxes[absorb_to_layer[key][1]],
                                     LayerWeights(model, absorb_to_layer[key]), alpha)
         IN  [exc |-> "none",
              absorb_scales_info |->
                  [key \in DOMAIN absorb_to_layer |->
                      [c \in Channels |-> IF IsZero(scale(key)[c]) THEN Zero
                                          ELSE Div(One, scale(key)[c])]],
              weight_scales_info |->
                  [layer_name \in ListedLayers(absorb_to_layer) |->
                      scale(CHOOSE key \in DOMAIN absorb_to_layer :
                              \E i \in 1..Len(absorb_to_layer[key]) :
                                  absorb_to_layer[key][i] = layer_name)]]

RECURSIVE ScaleLayers(_, _, _)
ScaleLayers(cx, layer_names, weight_scales_info) ==
    IF layer_names = <<>> \/ cx.exc # "none" THEN cx
    ELSE ScaleLayers(
             _scale_layer_weight(cx, Head(layer_names),
                                 weight_scales_info[Head(layer_names)], TRUE),
             Tail(layer_names), weight_scales_info)

RECURSIVE AdjustKeys(_, _, _, _)
AdjustKeys(cx, absorb_to_layer, scales, keys) ==
    IF keys = {} \/ cx.exc # "none" THEN cx
    ELSE LET key == CHOOSE k \in keys : TRUE
             c1 == _absorb_scales(cx, key, scales.absorb_scales_info[key])
         IN  AdjustKeys(ScaleLayers(c1, absorb_to_layer[key], scales.weight_scales_info),
                        absorb_to_layer, scales, keys \ {key})

\* TorchSmoothQuant._adjust_parameters: [cx, weight_scales_info, absorb_scales_info]
_adjust_parameters(cx, absorb_to_layer, input_maxes, alpha) ==
    LET scales == _cal_scales(cx.model, absorb_to_layer, input_maxes, alpha)
        applied == IF scales.exc # "none" THEN Raise(cx, scales.exc)
                   ELSE AdjustKeys(cx, absorb_to_layer, scales, DOMAIN absorb_to_layer)
    IN  [cx |-> applied,
         weight_scales_info |-> scales.weight_scales_info,
         absorb_scales_info |-> scales.absorb_scales_info]

\* the entries _export_sq_info writes for one key of absorb_to_layer
ExportKey(cx, layer_names, alpha) ==
    [max_value_info |->
         [alpha |-> alpha,
          input_minmax |-> <<cx.sq.input_mins[layer_names[1]],
                             cx.sq.input_maxes[layer_names[1]]>>,
          weight_max |-> [c \in Channels |->
                             ClipMin(WeightMax(LayerWeights(cx.model, layer_names))[c], Eps)],
          absorbed_layer |-> layer_names],
     \* the scales and zero points in the entry are taken from an
     \* SQLinearWrapper built around a deep copy of the layer
     sq_scale_info |-> [op_name \in {layer_names[i] : i \in DOMAIN layer_names} |->
                          [alpha |-> alpha]]]

\* TorchSmoothQuant._export_sq_info
_export_sq_info(cx, absorb_to_layer, input_maxes, alpha) ==
    IF \E key \in DOMAIN absorb_to_layer :
           \/ absorb_to_layer[key][1] \notin DOMAIN input_maxes
           \/ absorb_to_layer[key][1] \notin DOMAIN cx.sq.input_mins
    THEN Raise(cx, "KeyError")
    ELSE [cx EXCEPT
             !.sq.max_value_info =
                 DictUpdate(@, [key \in DOMAIN absorb_to_layer |->
                                   ExportKey(cx, absorb_to_layer[key], alpha).max_value_info]),
             !.sq.sq_scale_info =
                 DictUpdate(@, [op_name \in ListedLayers(absorb_to_layer) |->
                                   [alpha |-> alpha]])]

\* transform with record_max_info that marks the model as optimized
TransformExported_optimized(exported) ==
    IF exported.exc # "none" THEN exported
    ELSE [exported EXCEPT !.model.smoothquant_optimized = "True", !.ret = "model"]

\* transform, last part when record_max_info is set: after the export the
\* model is marked as not optimized and returned
TransformExported(exported) ==
    IF exported.exc # "none" THEN exported
    ELSE [exported EXCEPT !.model.smoothquant_optimized = "False", !.ret = "model"]

\* the LayerNorm parameters the model is built with
NormWeight0 == [c \in Channels |-> IF c = "c0" THEN Fin(1, 1) ELSE Fin(-4, 1)]

NormBias0 == [c \in Channels |-> IF c = "c0" THEN Zero ELSE Fin(1, 1)]

\* the normalised value inside "norm" for which the model as built feeds the
\* row act to "fc"
Normalized(act) ==
    [i \in DOMAIN act |->
        [c \in Channels |-> Div(SubN(act[i][c], NormBias0[c]), NormWeight0[c])]]

\* TorchSmoothQuant._get_example_input: the input of the first batch
_get_example_input(env) ==
    IF env.dataloader = <<>> THEN None ELSE Normalized(Head(env.dataloader).act)

RECURSIVE SumN(_, _)
SumN(f, S) ==
    IF S = {} THEN Zero
    ELSE LET x == CHOOSE y \in S : TRUE
         IN  AddN(f[x], SumN(f, S \ {x}))

\* the input of "fc" for one sample: norm.weight * x + norm.bias, times
\* input_scale when "fc" is wrapped (SQLinearWrapper.forward)
FcInput(model, x) ==
    [c \in Channels |->
        LET y == AddN(Mul(model.norm_weight[c], x[c]), model.norm_bias[c])
        IN  IF model.fc_wrapper = None THEN y
            ELSE Mul(y, model.fc_wrapper.input_scale[c])]

\* model_forward_per_sample: the output of "fc" for every sample of the input
model_forward_per_sample(model, sample) ==
    [i \in DOMAIN sample |->
        [r \in Rows |->
            SumN([c \in Channels |-> Mul(model.fc_weight[r][c], FcInput(model, sample[i])[c])],
                 Channels)]]

\* torch.isclose(a, b, atol=1e-4) with the default rtol=1e-5:
\* |a - b| <= atol + rtol * |b|, nan close to nothing, inf only to itself
IsClose(a, b) ==
    IF a.k = "nan" \/ b.k = "nan" THEN FALSE
    ELSE IF a.k = "inf" \/ b.k = "inf" THEN a = b
    ELSE ~Less(Fin(10 * b.d + AbsInt(b.n), 100000 * b.d), AbsN(SubN(a, b)))

\* TorchSmoothQuant.output_is_equal on two tensors
output_is_equal(out1, out2) ==
    \A i \in DOMAIN out1 : \A r \in Rows : IsClose(out1[i][r], out2[i][r])

\* transform that gives up when the output changed
TransformAdjusted_abort(adj, example_inputs, out_pre_sq) ==
    IF adj.cx.exc # "none" THEN adj.cx
    ELSE IF example_inputs # None
            /\ ~output_is_equal(model_forward_per_sample(adj.cx.model, example_inputs),
                                out_pre_sq)
         THEN [adj.cx EXCEPT !.exc = "RuntimeError", !.warned = TRUE]
         ELSE [adj.cx EXCEPT !.sq.weight_scale_info = adj.weight_scales_info,
                             !.sq.absorb_scales_info = adj.absorb_scales_info,
                             !.model.smoothquant_optimized = "True",
                             !.ret = "model"]

\* transform, last part: the scales of _adjust_parameters are recorded, the
\* model is marked, its output is compared with the output before, and the
\* model is returned
TransformAdjusted(adj, example_inputs, out_pre_sq) ==
    IF adj.cx.exc # "none" THEN adj.cx
    ELSE [adj.cx EXCEPT !.sq.weight_scale_info = adj.weight_scales_info,
                        !.sq.absorb_scales_info = adj.absorb_scales_info,
                        !.model.smoothquant_optimized = "True",
                        !.warned =
                            /\ example_inputs # None
                            /\ ~output_is_equal(
                                   model_forward_per_sample(adj.cx.model, example_inputs),
                                   out_pre_sq),
                        !.ret = "model"]

\* transform, from the calibration on; c4 is the context after
\* _parse_absorb_to_layers, cal the result of a calibration run
TransformCalibrated(c4, have_mins, cal, example_inputs) ==
    LET c5 == IF c4.sq.need_calibration
              THEN [c4 EXCEPT !.sq.input_mins = cal.input_mins,
                              !.sq.input_maxes = cal.input_maxes,
                              !.passes = @ + cal.passes]
              ELSE c4
        input_maxes_abs ==
            IF c4.sq.need_calibration \/ have_mins
            THEN InputMaxesAbs(c5.sq.input_mins, c5.sq.input_maxes)
            ELSE c4.sq.input_maxes_abs
    IN  IF c5.sq.record_max_info
        THEN TransformExported(
                 _export_sq_info(c5, c5.sq.absorb_to_layer, input_maxes_abs, c5.sq.alpha))
        ELSE TransformAdjusted(
                 _adjust_parameters(c5, c5.sq.absorb_to_layer, input_maxes_abs, c5.sq.alpha),
                 example_inputs,
                 IF example_inputs = None THEN None
                 ELSE model_forward_per_sample(c5.model, example_inputs))

\* transform, from the return of _parse_absorb_to_layers on
TransformParsed(c3, env, op_types, calib_iter) ==
    IF c3.exc # "none" THEN c3 ELSE
    LET have_mins == c3.sq.input_mins # EmptyDict
        c4 == IF have_mins /\ env.q_func
              THEN [c3 EXCEPT !.sq.need_calibration = FALSE] ELSE c3
    IN  IF c4.sq.absorb_to_layer = None
        THEN [c4 EXCEPT !.ret = "ignored"]
        ELSE TransformCalibrated(c4, have_mins,
                 calibrate(env.dataloader, env.q_func, calib_iter, op_types),
                 _get_example_input(env))

\* transform, from _check_need_calibration on; c1 is the context after revert
TransformReverted(c1, env, alpha, folding, percentile, op_types, scales_per_op, calib_iter) ==
    IF c1.exc # "none" THEN c1 ELSE
    LET chk == _check_need_calibration(c1.sq, alpha, percentile, op_types,
                                       scales_per_op, calib_iter)
        c2 == [c1 EXCEPT !.sq = [chk.sq EXCEPT !.need_calibration = chk.need_calib]]
    IN  TransformParsed(_parse_absorb_to_layers(c2, env, op_types, folding),
                        env, op_types, calib_iter)

\* TorchSmoothQuant.transform with a float alpha >= 0 and record_max_info unset
transform(cx, env, alpha, folding, percentile, op_types, scales_per_op, calib_iter) ==
    TransformReverted(
        revert([cx EXCEPT !.sq.insert_mul = ~folding, !.sq.allow_absorb = folding]),
        env, alpha, folding, percentile, op_types, scales_per_op, calib_iter)

----------------------------------------------------------------------------
(* Bounds and input domains                                                *)

\* transform / revert calls made on one TorchSmoothQuant object
MaxCalls == 2

\* longest data source handed to model_forward
MaxBatches == 4

\* largest iteration limit handed to model_forward
MaxIters == 4

Num(i) == Fin(i, 1)

\* the two rows of one input channel of fc.weight
ColChoices == {[r \in Rows |-> Zero],
               [r \in Rows |-> IF r = "r0" THEN Num(1) ELSE Num(-4)]}

FcWeights == {[r \in Rows |-> [c \in Channels |-> col[c][r]]] :
                 col \in [Channels -> ColChoices]}

\* activations at the input of fc for two calibration batches
ActA == <<[c \in Channels |-> IF c = "c0" THEN Num(1) ELSE Zero],
          [c \in Channels |-> IF c = "c0" THEN Num(-4) ELSE Zero]>>

ActB == <<[c \in Channels |-> IF c = "c0" THEN Zero ELSE Num(1)]>>

Batch(pair, act) == [pair |-> pair, act |-> act]

DataLoaders == {<<Batch(TRUE, ActA)>>, <<Batch(TRUE, ActA), Batch(TRUE, ActB)>>}

\* alpha in halves: 0.5 and 1.0
Alphas == {1, 2}

DefaultParams == [percentile |-> 100, op_types |-> {"Linear", "Conv2d"},
                  scales_per_op |-> FALSE, calib_iter |-> 1]

\* the default calibration parameters and every single-field change of them
ParamChoices == {DefaultParams,
                 [DefaultParams EXCEPT !.percentile = 99],
                 [DefaultParams EXCEPT !.op_types = {"Linear"}],
                 [DefaultParams EXCEPT !.op_types = {"Conv2d"}],
                 [DefaultParams EXCEPT !.scales_per_op = TRUE],
                 [DefaultParams EXCEPT !.calib_iter = 2]}

----------------------------------------------------------------------------
(* State                                                                   *)

VARIABLES
    model,      \* the torch model being transformed
    sq,         \* the TorchSmoothQuant object
    env,        \* what the object was constructed with: dataloader, q_func, traceability
    calls,      \* number of calls made so far
    last,       \* the last call: operation, arguments, before/after, outcome
    fwd,        \* model_forward: [dataloader, iters, forwarded, done]
    sc,         \* cal_scale: [input_max, weights, alpha, scale, done]
    calib,      \* Calibration hook: [input_mins, input_maxes, pending, fed]
    tune,       \* the tune strategy: sampler, phase, trials, history, result
    ipex,       \* update_sq_scale: the config document and the scale info
    graph,      \* GraphTrace: the traced graph and the maps computed from it
    cpu,        \* the process: CpuInfo instances built and detections run
    train       \* CompressionManager.CallBacks: calls made and calls passed on

vars == <<model, sq, env, calls, last, fwd, sc, calib, tune, ipex, graph, cpu, train>>

\* the variables of the smooth-quant object and of the functions under it
smoothVars == <<model, sq, env, calls, last, fwd, sc, calib>>

TuneIdle == [state |-> "none"]

IpexIdle == [done |-> FALSE]

GraphIdle == [done |-> FALSE]

CpuIdle == [uses |-> 0]

TrainIdle == [made |-> <<>>]

\* nothing but the smooth-quant object is in use
OnlySmooth == tune = TuneIdle /\ ipex = IpexIdle /\ graph = GraphIdle /\ cpu = CpuIdle /\ train = TrainIdle

FwdIdle == [dataloader |-> <<>>, iters |-> -1, forwarded |-> <<>>, done |-> FALSE]

ScIdle == [input_max |-> [c \in Channels |-> Zero],
           weights |-> [r \in Rows |-> [c \in Channels |-> Zero]],
           alpha |-> 1, scale |-> [c \in Channels |-> Zero], done |-> FALSE]

CalibIdle == [input_mins |-> EmptyDict, input_maxes |-> EmptyDict,
              pending |-> {}, fed |-> <<>>]

\* TorchSmoothQuant.__init__
InitSq == [insert_mul |-> FALSE, allow_absorb |-> TRUE,
           weight_scale_info |-> EmptyDict, absorb_scales_info |-> EmptyDict,
           input_mins |-> EmptyDict, input_maxes |-> EmptyDict,
           input_maxes_abs |-> EmptyDict,
           absorb_to_layer |-> EmptyDict, need_calibration |-> FALSE,
           record_max_info |-> FALSE,
           max_value_info |-> EmptyDict, sq_scale_info |-> EmptyDict,
           \* set by the first _check_need_calibration
           alpha |-> 0, percentile |-> 0, op_types |-> {},
           scales_per_op |-> FALSE, calib_iter |-> 0]

NoCall == [op |-> "none", folding |-> FALSE, alpha |-> 0, params |-> DefaultParams,
           exc |-> "none", ret |-> "none", passes |-> 0, warned |-> FALSE,
           model_before |-> None, sq_before |-> None]

Init ==
    /\ model \in [norm_weight : {NormWeight0},
                  norm_bias : {NormBias0},
                  fc_weight : FcWeights,
                  fc_wrapper : {None},
                  smoothquant_optimized : {"unset"}]
    /\ sq \in {[InitSq EXCEPT !.record_max_info = record_max_info] :
                  record_max_info \in BOOLEAN}
    /\ env \in [dataloader : DataLoaders, q_func : BOOLEAN, traceable : BOOLEAN]
    /\ calls = 0
    /\ last = NoCall
    /\ fwd = FwdIdle
    /\ sc = ScIdle
    /\ calib = CalibIdle
    /\ OnlySmooth

Context == [model |-> model, sq |-> sq, exc |-> "none", passes |-> 0, ret |-> "none",
            warned |-> FALSE]

\* sq.transform(alpha, folding, percentile, op_types, scales_per_op, calib_iter)
Transform(alpha, folding, p) ==
    /\ calls < MaxCalls
    /\ \E r \in {transform(Context, env, alpha, folding, p.percentile, p.op_types,
                            p.scales_per_op, p.calib_iter)} :
           /\ model' = r.model
           /\ sq' = r.sq
           /\ last' = [op |-> "transform", folding |-> folding, alpha |-> alpha,
                       params |-> p, exc |-> r.exc, ret |-> r.ret, passes |-> r.passes,
                       warned |-> r.warned,
                       model_before |-> model, sq_before |-> sq]
    /\ calls' = calls + 1
    /\ UNCHANGED <<env, fwd, sc, calib>>
    /\ UNCHANGED <<tune, ipex, graph, cpu, train>>

\* sq.revert()
Revert ==
    /\ calls < MaxCalls
    /\ \E r \in {revert(Context)} :
           /\ model' = r.model
           /\ sq' = r.sq
           /\ last' = [NoCall EXCEPT !.op = "revert", !.exc = r.exc,
                                     !.model_before = model, !.sq_before = sq]
    /\ calls' = calls + 1
    /\ UNCHANGED <<env, fwd, sc, calib>>
    /\ UNCHANGED <<tune, ipex, graph, cpu, train>>

Next ==
    \/ \E alpha \in Alphas, folding \in BOOLEAN, p \in ParamChoices :
           Transform(alpha, folding, p)
    \/ Revert

Spec == Init /\ [][Next]_vars

----------------------------------------------------------------------------
(* cal_scale on its own: inputs drawn from bounded sets                    *)

InputMaxChoices == [Channels -> {Zero, Num(1), Num(4)}]

\* alpha in halves: 0.0, 0.5 and 1.0
ScaleAlphas == {0, 1, 2}

IdleModel == [norm_weight |-> [c \in Channels |-> One],
              norm_bias |-> [c \in Channels |-> Zero],
              fc_weight |-> [r \in Rows |-> [c \in Channels |-> One]],
              fc_wrapper |-> None,
              smoothquant_optimized |-> "unset"]

IdleEnv == [dataloader |-> <<>>, q_func |-> FALSE, traceable |-> TRUE]

NoObject ==
    /\ model = IdleModel
    /\ sq = InitSq
    /\ env = IdleEnv
    /\ calls = 0
    /\ last = NoCall

InitScale ==
    /\ NoObject
    /\ fwd = FwdIdle
    /\ calib = CalibIdle
    /\ OnlySmooth
    /\ sc \in [input_max : InputMaxChoices, weights : FcWeights, alpha : ScaleAlphas,
               scale : {[c \in Channels |-> Zero]}, done : {FALSE}]

\* scale = cal_scale(input_max, weights, alpha)
CalScale ==
    /\ ~sc.done
    /\ sc' = [sc EXCEPT !.scale = cal_scale(sc.input_max, sc.weights, sc.alpha),
                        !.done = TRUE]
    /\ UNCHANGED <<model, sq, env, calls, last, fwd, calib>>
    /\ UNCHANGED <<tune, ipex, graph, cpu, train>>

NextScale == CalScale

SpecScale == InitScale /\ [][NextScale]_vars

----------------------------------------------------------------------------
(* model_forward on its own                                                *)

FwdLoaders == {[j \in 1..n |-> Batch(pair, ActB)] : n \in 0..MaxBatches, pair \in BOOLEAN}

InitForward ==
    /\ NoObject
    /\ sc = ScIdle
    /\ calib = CalibIdle
    /\ OnlySmooth
    /\ fwd \in [dataloader : FwdLoaders, iters : -1..MaxIters,
                forwarded : {<<>>}, done : {FALSE}]

\* model_forward(model, dataloader, iters, device)
ModelForward ==
    /\ ~fwd.done
    /\ fwd' = [fwd EXCEPT !.forwarded = model_forward(fwd.dataloader, fwd.iters),
                          !.done = TRUE]
    /\ UNCHANGED <<model, sq, env, calls, last, sc, calib>>
    /\ UNCHANGED <<tune, ipex, graph, cpu, train>>

NextForward == ModelForward

SpecForward == InitForward /\ [][NextForward]_vars

----------------------------------------------------------------------------
(* The Calibration hook on its own: a set of batches fed in any order      *)

\* most batches fed to one hook
MaxFed == 3

ActC == <<[c \in Channels |-> IF c = "c0" THEN Num(4) ELSE Num(-1)]>>

ActD == <<[c \in Channels |-> Num(-4)], [c \in Channels |-> Num(1)]>>

ActE == <<[c \in Channels |-> IF c = "c0" THEN Zero ELSE Num(4)]>>

ActChoices == {ActA, ActB, ActC, ActD, ActE}

InitHook ==
    /\ NoObject
    /\ sc = ScIdle
    /\ fwd = FwdIdle
    /\ OnlySmooth
    /\ \E batches \in SUBSET ActChoices :
           /\ Cardinality(batches) <= MaxFed
           /\ calib = [CalibIdle EXCEPT !.pending = batches]

\* one forward pass reaches the hooked module "fc" with the input act
SaveInputHook(act) ==
    /\ act \in calib.pending
    /\ LET st == save_input_hook([input_mins |-> calib.input_mins,
                                  input_maxes |-> calib.input_maxes], "fc", act)
       IN  calib' = [input_mins |-> st.input_mins, input_maxes |-> st.input_maxes,
                     pending |-> calib.pending \ {act},
                     fed |-> Append(calib.fed, act)]
    /\ UNCHANGED <<model, sq, env, calls, last, fwd, sc>>
    /\ UNCHANGED <<tune, ipex, graph, cpu, train>>

NextHook == \E act \in ActChoices : SaveInputHook(act)

SpecHook == InitHook /\ [][NextHook]_vars

----------------------------------------------------------------------------
(* RandomTuneStrategy.next_tune_cfg and the tune strategy that drives it.   *)
(* A configuration is a dict: ops names the per-operator assignment the     *)
(* op-wise sampler enumerated, calib_sampling_size is the key that          *)
(* next_tune_cfg writes.  Accuracies are counted in thousandths.            *)

\* largest maximum trial count a strategy is configured with
MaxTrials == 3

\* the key calib_sampling_size is absent
NoSize == 0

OpCfg(id) == [ops |-> id, calib_sampling_size |-> NoSize]

NoCfg == OpCfg("none")

\* list(op_wise_tuning_sampler)
OpCfgLists == {<<OpCfg("a")>>, <<OpCfg("a"), OpCfg("b")>>}

\* the options of the tuning space's calib_sampling_size item
CalibLists == {<<100>>, <<100, 500>>}

\* accuracies an evaluation can report
Accuracies == {850, 890, 891}

\* next_tune_cfg that refuses to yield a list element it has yielded before
next_tune_cfg_norepeat(op_tuning_cfg_lst, calib_sampling_size_lst, calib_index, op_tuning_cfg_index) ==
    IF op_tuning_cfg_lst[op_tuning_cfg_index].calib_sampling_size # NoSize
    THEN [stop |-> TRUE, op_tuning_cfg_lst |-> op_tuning_cfg_lst, yielded |-> NoCfg]
    ELSE LET lst == [op_tuning_cfg_lst EXCEPT ![op_tuning_cfg_index].calib_sampling_size =
                        calib_sampling_size_lst[calib_index]]
         IN  [stop |-> FALSE, op_tuning_cfg_lst |-> lst, yielded |-> lst[op_tuning_cfg_index]]

\* next_tune_cfg that always takes the first calibration sampling size
next_tune_cfg_firstsize(op_tuning_cfg_lst, calib_sampling_size_lst, calib_index, op_tuning_cfg_index) ==
    LET lst == [op_tuning_cfg_lst EXCEPT ![op_tuning_cfg_index].calib_sampling_size =
                   calib_sampling_size_lst[1]]
    IN  [stop |-> FALSE, op_tuning_cfg_lst |-> lst, yielded |-> lst[op_tuning_cfg_index]]

\* one turn of the while True loop of RandomTuneStrategy.next_tune_cfg, for the
\* two indices np.random.choice drew: the list element is written in place
\* and yielded; stop says the generator returned instead of yielding
next_tune_cfg(op_tuning_cfg_lst, calib_sampling_size_lst, calib_index, op_tuning_cfg_index) ==
    LET lst == [op_tuning_cfg_lst EXCEPT ![op_tuning_cfg_index].calib_sampling_size =
                   calib_sampling_size_lst[calib_index]]
    IN  [stop |-> FALSE, op_tuning_cfg_lst |-> lst, yielded |-> lst[op_tuning_cfg_index]]

\* a sampler that walks the enumerated configurations once and then signals
\* exhaustion
next_op_wise_cfg(op_tuning_cfg_lst, calib_sampling_size_lst, pos) ==
    IF pos > Len(op_tuning_cfg_lst)
    THEN [stop |-> TRUE, yielded |-> NoCfg]
    ELSE [stop |-> FALSE,
          yielded |-> [op_tuning_cfg_lst[pos] EXCEPT !.calib_sampling_size =
                          calib_sampling_size_lst[1]]]

\* acceptance that asks for an accuracy strictly inside the tolerance
is_accepted_strict(baseline, tolerance, acc) == baseline - acc < tolerance

\* the acceptance rule for an absolute tolerance
is_accepted(baseline, tolerance, acc) == baseline - acc <= tolerance

\* the trial budget that lets one trial too many through
budget_reached_late(trials, max_trials, time_up) == time_up \/ trials > max_trials

\* the budgets looked at between trials: wall-clock time and trial count
budget_reached(trials, max_trials, time_up) == time_up \/ trials >= max_trials

\* the recorded trial with the best accuracy, the earliest of equals
BestTrial(history) ==
    history[CHOOSE i \in DOMAIN history :
               \A k \in DOMAIN history :
                   \/ history[k].acc < history[i].acc
                   \/ (history[k].acc = history[i].acc /\ i <= k)]

NoResult == [kind |-> "none", cfg |-> NoCfg]

InitTune ==
    /\ NoObject
    /\ fwd = FwdIdle /\ sc = ScIdle /\ calib = CalibIdle
    /\ ipex = IpexIdle /\ graph = GraphIdle /\ cpu = CpuIdle /\ train = TrainIdle
    /\ tune \in [state : {"INIT"},
                 sampler : {"random", "op_wise"},
                 op_tuning_cfg_lst : OpCfgLists,
                 calib_sampling_size_lst : CalibLists,
                 pos : {1},
                 baseline : {900},
                 tolerance : {10},
                 max_trials : 1..MaxTrials,
                 trials : {0},
                 cur : {NoCfg},
                 acc : {0},
                 history : {<<>>},
                 yields : {<<>>},
                 result : {NoResult}]

TuneFrame == UNCHANGED smoothVars /\ UNCHANGED <<ipex, graph, cpu, train>>

\* INIT: the tuning space is built
TuneInit ==
    /\ tune.state = "INIT"
    /\ tune' = [tune EXCEPT !.state = "BASELINE_EVAL"]
    /\ TuneFrame

\* BASELINE_EVAL: the FP32 accuracy is measured; the time budget is looked at
\* before the first trial
BaselineEval(time_up) ==
    /\ tune.state = "BASELINE_EVAL"
    /\ tune' = [tune EXCEPT !.state = IF time_up THEN "TIMEOUT" ELSE "PROPOSE"]
    /\ TuneFrame

\* what the caller holds of a yield: the list element itself (ref), and for
\* the record the calib_sampling_size it carried when it was handed out
Yielded(op_tuning_cfg_index, op_tuning_cfg) ==
    [ref |-> op_tuning_cfg_index,
     calib_sampling_size |-> op_tuning_cfg.calib_sampling_size]

\* PROPOSE with the random sampler: next(self.next_tune_cfg())
ProposeRandom(calib_index, op_tuning_cfg_index) ==
    /\ tune.state = "PROPOSE"
    /\ tune.sampler = "random"
    /\ calib_index \in 1..Len(tune.calib_sampling_size_lst)
    /\ op_tuning_cfg_index \in 1..Len(tune.op_tuning_cfg_lst)
    /\ \E r \in {next_tune_cfg(tune.op_tuning_cfg_lst, tune.calib_sampling_size_lst,
                                calib_index, op_tuning_cfg_index)} :
           tune' = IF r.stop
                   THEN [tune EXCEPT !.state = "EXHAUSTED"]
                   ELSE [tune EXCEPT !.state = "APPLY",
                                     !.op_tuning_cfg_lst = r.op_tuning_cfg_lst,
                                     !.cur = r.yielded,
                                     !.yields = Append(@, Yielded(op_tuning_cfg_index,
                                                                  r.yielded))]
    /\ TuneFrame

\* PROPOSE with the sampler that enumerates the configurations once
ProposeOpWise ==
    /\ tune.state = "PROPOSE"
    /\ tune.sampler = "op_wise"
    /\ \E r \in {next_op_wise_cfg(tune.op_tuning_cfg_lst, tune.calib_sampling_size_lst,
                                   tune.pos)} :
           tune' = IF r.stop
                   THEN [tune EXCEPT !.state = "EXHAUSTED"]
                   ELSE [tune EXCEPT !.state = "APPLY", !.pos = @ + 1, !.cur = r.yielded]
    /\ TuneFrame

\* APPLY: the candidate is put on a working copy of the model
Apply ==
    /\ tune.state = "APPLY"
    /\ tune' = [tune EXCEPT !.state = "EVAL"]
    /\ TuneFrame

\* EVAL that gives up on the trial when a low accuracy shows up
Eval_giveup(acc) ==
    /\ tune.state = "EVAL"
    /\ tune' = [tune EXCEPT !.state = IF acc < 890 THEN "TIMEOUT" ELSE "RECORD",
                            !.acc = acc]
    /\ TuneFrame

\* EVAL: calibration and the accuracy evaluation run to their end
Eval(acc) ==
    /\ tune.state = "EVAL"
    /\ tune' = [tune EXCEPT !.state = "RECORD", !.acc = acc]
    /\ TuneFrame

\* RECORD: the trial is stored; then the candidate is accepted, or the budgets
\* are looked at, or the next candidate is asked for
Record(time_up) ==
    /\ tune.state = "RECORD"
    /\ tune' = [tune EXCEPT
                   !.history = Append(@, [cfg |-> tune.cur, acc |-> tune.acc]),
                   !.trials = @ + 1,
                   !.state = IF is_accepted(tune.baseline, tune.tolerance, tune.acc)
                             THEN "ACCEPTED"
                             ELSE IF budget_reached(tune.trials + 1, tune.max_trials, time_up)
                                  THEN "TIMEOUT"
                                  ELSE "PROPOSE"]
    /\ TuneFrame

\* ACCEPTED: the accepted candidate is the result
Accepted ==
    /\ tune.state = "ACCEPTED"
    /\ tune' = [tune EXCEPT !.state = "DONE",
                            !.result = [kind |-> "accepted", cfg |-> tune.cur]]
    /\ TuneFrame

\* TIMEOUT: the best trial so far is the result, the baseline if there is none
Timeout ==
    /\ tune.state = "TIMEOUT"
    /\ tune' = [tune EXCEPT !.state = "DONE",
                            !.result = IF tune.history = <<>>
                                       THEN [kind |-> "baseline", cfg |-> NoCfg]
                                       ELSE [kind |-> "best",
                                             cfg |-> BestTrial(tune.history).cfg]]
    /\ TuneFrame

\* EXHAUSTED: the sampler has no more candidates and none was accepted
Exhausted ==
    /\ tune.state = "EXHAUSTED"
    /\ tune' = [tune EXCEPT !.state = "DONE",
                            !.result = [kind |-> "failure", cfg |-> NoCfg]]
    /\ TuneFrame

NextTune ==
    \/ TuneInit
    \/ \E time_up \in BOOLEAN : BaselineEval(time_up)
    \/ \E calib_index \in 1..Len(tune.calib_sampling_size_lst),
          op_tuning_cfg_index \in 1..Len(tune.op_tuning_cfg_lst) :
           ProposeRandom(calib_index, op_tuning_cfg_index)
    \/ ProposeOpWise
    \/ Apply
    \/ \E acc \in Accuracies : Eval(acc)
    \/ \E time_up \in BOOLEAN : Record(time_up)
    \/ Accepted
    \/ Timeout
    \/ Exhausted

SpecTune == InitTune /\ [][NextTune]_vars

\* the strategy is one sequential loop: a step that can be taken is taken
SpecTuneFair == SpecTune /\ WF_vars(NextTune)

----------------------------------------------------------------------------
(* update_sq_scale: the config document is the parsed ipex_config.json, a   *)
(* dict module name -> entry; an entry may hold q_op_infos, a dict op       *)
(* number -> op info.                                                       *)

TensorInfo(scale, zero_point, factor, dtype) ==
    [scale |-> scale, zero_point |-> zero_point,
     smooth_quant_scaling_factor |-> factor, force_dtype |-> dtype]

\* an op info as the capability query wrote it
OpInfo(fqn, is_module) ==
    [fqn |-> fqn, op_type |-> "linear", op_type_is_module |-> is_module,
     input_tensor_infos |-> <<TensorInfo(Fin(1, 1), 0, Fin(1, 1), "quint8"),
                              TensorInfo(Fin(1, 2), 1, Fin(1, 1), "qint8")>>,
     weight_tensor_infos |-> <<TensorInfo(Fin(1, 4), 0, Fin(1, 1), "qint8")>>,
     output_tensor_infos |-> <<TensorInfo(Fin(1, 1), 0, Fin(1, 1), "float32")>>]

OpInfoChoices == {OpInfo(fqn, m) : fqn \in {"fc", "fc2", ""}, m \in BOOLEAN}

\* entries: without q_op_infos, with an empty one, with one op
EntryChoices ==
    {[weight_tensor_infos |-> <<>>]}
    \cup {[q_op_infos |-> EmptyDict, weight_tensor_infos |-> <<>>]}
    \cup {[q_op_infos |-> ("0" :> v1), weight_tensor_infos |-> <<>>] : v1 \in OpInfoChoices}

ConfigChoices == [{"m0", "m1"} -> EntryChoices]

ScaleInfo(k) ==
    [input_scale_for_mul |-> Fin(2, k), input_scale_after_mul |-> Fin(1, 8 * k),
     input_zero_point_after_mul |-> 2 + k, weight_scale_after_mul |-> Fin(k, 16),
     alpha |-> 1]

\* smoothquant_scale_info: layer name -> scales
ScaleInfoChoices == {EmptyDict, "fc" :> ScaleInfo(1), ("fc" :> ScaleInfo(1)) @@ ("fc2" :> ScaleInfo(3))}

\* the update of one op info that ignores op_type_is_module
UpdateOpInfo_anytype(v1, smoothquant_scale_info) ==
    LET op_name == v1.fqn
    IN  IF op_name \in DOMAIN smoothquant_scale_info
        THEN LET info == smoothquant_scale_info[op_name]
             IN  [v1 EXCEPT
                    !.input_tensor_infos[1].scale = info.input_scale_after_mul,
                    !.input_tensor_infos[1].zero_point = info.input_zero_point_after_mul,
                    !.input_tensor_infos[1].smooth_quant_scaling_factor =
                        info.input_scale_for_mul,
                    !.weight_tensor_infos[1].smooth_quant_scaling_factor =
                        Div(One, info.input_scale_for_mul),
                    !.weight_tensor_infos[1].scale = info.weight_scale_after_mul]
        ELSE v1

\* the body of the inner loop of update_sq_scale for one op info v1
UpdateOpInfo(v1, smoothquant_scale_info) ==
    LET op_name == v1.fqn
    IN  IF op_name \in DOMAIN smoothquant_scale_info /\ v1.op_type_is_module
        THEN LET info == smoothquant_scale_info[op_name]
             IN  [v1 EXCEPT
                    !.input_tensor_infos[1].scale = info.input_scale_after_mul,
                    !.input_tensor_infos[1].zero_point = info.input_zero_point_after_mul,
                    !.input_tensor_infos[1].smooth_quant_scaling_factor =
                        info.input_scale_for_mul,
                    !.weight_tensor_infos[1].smooth_quant_scaling_factor =
                        Div(One, info.input_scale_for_mul),
                    !.weight_tensor_infos[1].scale = info.weight_scale_after_mul]
        ELSE v1

\* update_sq_scale: the document written back to ipex_config_path
update_sq_scale(ipex_config, smoothquant_scale_info) ==
    [module_name \in DOMAIN ipex_config |->
        LET v == ipex_config[module_name]
        IN  IF "q_op_infos" \in DOMAIN v /\ v.q_op_infos # EmptyDict
            THEN [v EXCEPT !.q_op_infos =
                     [op_num \in DOMAIN v.q_op_infos |->
                         UpdateOpInfo(v.q_op_infos[op_num], smoothquant_scale_info)]]
            ELSE v]

InitIpex ==
    /\ NoObject
    /\ fwd = FwdIdle /\ sc = ScIdle /\ calib = CalibIdle
    /\ tune = TuneIdle /\ graph = GraphIdle /\ cpu = CpuIdle /\ train = TrainIdle
    /\ \E config \in ConfigChoices, info \in ScaleInfoChoices :
           ipex = [done |-> FALSE, config |-> config, read |-> config,
                   smoothquant_scale_info |-> info]

\* update_sq_scale(ipex_config_path, smoothquant_scale_info)
UpdateSqScale ==
    /\ ~ipex.done
    /\ ipex' = [ipex EXCEPT !.done = TRUE,
                            !.config = update_sq_scale(ipex.config,
                                                       ipex.smoothquant_scale_info)]
    /\ UNCHANGED smoothVars
    /\ UNCHANGED <<tune, graph, cpu, train>>

NextIpex == UpdateSqScale

SpecIpex == InitIpex /\ [][NextIpex]_vars

----------------------------------------------------------------------------
(* GraphTrace.  A traced graph is a sequence of nodes in execution order;   *)
(* a node is [kind, input, scope, module]: input is the index of the node  *)
(* that produces its first input (0 for a graph input), scope the dotted    *)
(* parts of the last segment of scopeName(), module the torch module it was *)
(* traced from (None for a functional op).                                  *)

\* nodes of the graphs whose absorbing layers are looked for
MaxNodes == 4

\* nodes of the graphs whose absorb-to-layer map is built
MaxLayers == 3

\* what get_prev_absorb_layer records when a node has no absorbing layer
NoNode == -1

\* GraphTrace.__init__: supported_torch_module_to_aten
supported_torch_module_to_aten ==
    [Linear |-> "aten::linear", Conv2d |-> "aten::_convolution",
     ConvTranspose2d |-> "aten::_convolution", LayerNorm |-> "aten::layer_norm",
     BatchNorm2d |-> "aten::batch_norm", GroupNorm |-> "aten::group_norm",
     InstanceNorm2d |-> "aten::instance_norm", LlamaRMSNorm |-> "aten::mul",
     T5LayerNorm |-> "aten::mul", LPLayerNorm |-> "aten::layer_norm"]

\* GraphTrace.__init__: skip_ops_to_find_absorb
skip_ops_to_find_absorb == {"aten::to", "aten::relu", "aten::leaky_relu", "aten::hardtanh"}

\* GraphTrace.__init__: could_absorb_layers
could_absorb_layers ==
    {"aten::layer_norm", "aten::batch_norm", "aten::linear", "aten::_convolution",
     "aten::group_norm", "aten::instance_norm", "aten::mul"}

Module(class, groups, in_channels, out_channels) ==
    [class |-> class, groups |-> groups, in_channels |-> in_channels,
     out_channels |-> out_channels]

\* the kind and module of a node, by what it was traced from
Template(op) ==
    CASE op = "Linear" -> [kind |-> "aten::linear", module |-> Module("Linear", 1, 4, 4)]
      [] op = "QLinear" ->
            [kind |-> "aten::linear",
             module |-> Module("NonDynamicallyQuantizableLinear", 1, 4, 4)]
      [] op = "Conv2d" -> [kind |-> "aten::_convolution", module |-> Module("Conv2d", 1, 4, 4)]
      [] op = "GroupConv" ->
            [kind |-> "aten::_convolution", module |-> Module("Conv2d", 2, 4, 4)]
      [] op = "DepthwiseConv" ->
            [kind |-> "aten::_convolution", module |-> Module("Conv2d", 4, 4, 4)]
      [] op = "LayerNorm" -> [kind |-> "aten::layer_norm", module |-> Module("LayerNorm", 1, 4, 4)]
      [] op = "RMSNorm" -> [kind |-> "aten::mul", module |-> Module("RMSNorm", 1, 4, 4)]
      [] op = "relu" -> [kind |-> "aten::relu", module |-> None]
      [] op = "size" -> [kind |-> "aten::size", module |-> None]
      [] op = "add" -> [kind |-> "aten::add", module |-> None]
      [] op = "mul" -> [kind |-> "aten::mul", module |-> None]

\* nodes told apart by their kind only
KindOps == {"Linear", "LayerNorm", "relu", "size", "add"}

\* nodes told apart by kind and module; "again" is the module of the first
\* node called once more
LayerOps == {"Linear", "QLinear", "Conv2d", "GroupConv", "DepthwiseConv", "LayerNorm",
             "RMSNorm", "relu", "size", "add", "mul", "again"}

ModuleNames == <<"m1", "m2", "m3", "m4", "m5", "m6">>

\* the graph of n nodes traced from ops, node i fed by node inputs[i]
BuildGraph(ops, inputs) ==
    [i \in DOMAIN ops |->
        LET src == IF ops[i] = "again" THEN 1 ELSE i
            t == Template(ops[src])
        IN  [kind |-> t.kind, module |-> t.module, input |-> inputs[i],
             scope |-> IF t.module = None THEN <<"__module">>
                       ELSE <<"__module", ModuleNames[src]>>]]

\* every graph of n nodes over ops in which a node is fed by one of the two
\* nodes before it
Graphs(n, ops) ==
    {BuildGraph(o, inp) :
        o \in {f \in [1..n -> ops] : f[1] # "again"},
        inp \in {f \in [1..n -> 0..n] : \A i \in 1..n : f[i] < i /\ f[i] >= i - 2}}

\* node.kind(), with the graph input as node 0
Kind(nodes, i) == IF i = 0 THEN "prim::Param" ELSE nodes[i].kind

\* ".".join(node.scopeName().split("/")[-1].split(".")[1:]), as the parts
LayerName(node) == Tail(node.scope)

\* get_parent(node)
get_parent(nodes, i) == nodes[i].input

\* list(parent.outputs())[0].uses(): the nodes that consume the output
Uses(nodes, i) == {u \in DOMAIN nodes : nodes[u].input = i}

\* GraphTrace.mapping_torch_module_to_aten
mapping_torch_module_to_aten(op_types) ==
    {supported_torch_module_to_aten[op] :
        op \in op_types \cap DOMAIN supported_torch_module_to_aten}

\* GraphTrace.get_nodes: the indices of the nodes of the wanted kinds, in order
get_nodes(nodes, aten_op_types) ==
    SelectSeq([i \in DOMAIN nodes |-> i], LAMBDA i : nodes[i].kind \in aten_op_types)

\* skip_op_absorb_helper that does not look behind a skip op
skip_op_absorb_helper_shallow(nodes, parent_node) ==
    \A next_node \in Uses(nodes, parent_node) :
        \/ nodes[next_node].kind = "aten::size"
        \/ nodes[next_node].kind \in could_absorb_layers
        \/ nodes[next_node].kind \in skip_ops_to_find_absorb

\* GraphTrace.skip_op_absorb_helper
RECURSIVE skip_op_absorb_helper(_, _)
skip_op_absorb_helper(nodes, parent_node) ==
    \A next_node \in Uses(nodes, parent_node) :
        IF nodes[next_node].kind = "aten::size" THEN TRUE
        ELSE IF nodes[next_node].kind \in could_absorb_layers THEN TRUE
        ELSE IF nodes[next_node].kind \in skip_ops_to_find_absorb
             THEN skip_op_absorb_helper(nodes, next_node)
             ELSE FALSE

\* the while loop of get_prev_absorb_layer: climb over the skip ops
RECURSIVE ClimbSkipOps(_, _)
ClimbSkipOps(nodes, parent) ==
    IF Kind(nodes, parent) \in skip_ops_to_find_absorb
    THEN ClimbSkipOps(nodes, get_parent(nodes, parent))
    ELSE parent

\* GraphTrace.get_prev_absorb_layer for one node
PrevAbsorbOf(nodes, node) ==
    LET parent == ClimbSkipOps(nodes, get_parent(nodes, node))
        parent_out_kinds == {nodes[u].kind : u \in Uses(nodes, parent)} \ {"aten::size"}
    IN  IF Kind(nodes, parent) \in could_absorb_layers
        THEN IF parent_out_kinds = parent_out_kinds \cap could_absorb_layers
             THEN parent
             ELSE IF parent_out_kinds \cap skip_ops_to_find_absorb # {}
                  THEN IF skip_op_absorb_helper(nodes, parent) THEN parent ELSE NoNode
                  ELSE NoNode
        ELSE NoNode

\* GraphTrace.get_prev_absorb_layer
get_prev_absorb_layer(nodes, wanted) ==
    [k \in DOMAIN wanted |-> PrevAbsorbOf(nodes, wanted[k])]

\* GraphTrace._check_valid_conv
_check_valid_conv(module) ==
    IF module.class # "Conv2d" THEN TRUE
    ELSE IF module.groups > 1
         THEN module.in_channels = module.out_channels /\ module.groups = module.in_channels
         ELSE TRUE

\* get_module(model, key): the module registered under the name
get_module(nodes, key) ==
    nodes[CHOOSE i \in DOMAIN nodes : nodes[i].module # None /\ LayerName(nodes[i]) = key].module

\* python list(dict.keys()) / dict lookup for a dict kept as [keys, map]
NoLayers == [keys |-> <<>>, map |-> EmptyDict]

\* the loop of get_absorb_to_layer over enumerate(nodes_prev_absorb), from
\* index on; acc is [absorb_to_layer, no_absorb_layers]
RECURSIVE GroupByAbsorb(_, _, _, _, _)
GroupByAbsorb(nodes, wanted, nodes_prev_absorb, index, acc) ==
    IF index > Len(wanted) THEN acc
    ELSE LET absorb == nodes_prev_absorb[index]
             layer_name == LayerName(nodes[wanted[index]])
         IN  IF absorb = NoNode
             THEN GroupByAbsorb(nodes, wanted, nodes_prev_absorb, index + 1,
                      [acc EXCEPT !.no_absorb_layers = Append(@, layer_name)])
             ELSE IF layer_name = <<>> \/ LayerName(nodes[absorb]) = <<>>
             THEN GroupByAbsorb(nodes, wanted, nodes_prev_absorb, index + 1, acc)
             ELSE LET absorb_name == LayerName(nodes[absorb])
                      a == acc.absorb_to_layer
                  IN  GroupByAbsorb(nodes, wanted, nodes_prev_absorb, index + 1,
                          [acc EXCEPT !.absorb_to_layer =
                              IF absorb_name \in DOMAIN a.map
                              THEN [a EXCEPT !.map[absorb_name] = Append(@, layer_name)]
                              ELSE [keys |-> Append(a.keys, absorb_name),
                                    map |-> a.map @@ (absorb_name :> <<layer_name>>)]])

\* layer_type in supported_torch_module_to_aten.keys() and _check_valid_conv
LayerSupported(nodes, layer_name) ==
    /\ get_module(nodes, layer_name).class \in DOMAIN supported_torch_module_to_aten
    /\ _check_valid_conv(get_module(nodes, layer_name))

\* remove_unsupported_layers that keeps an entry when its first layer is fine
RECURSIVE remove_unsupported_layers_first(_, _, _, _, _)
remove_unsupported_layers_first(nodes, absorb_to_layer, no_absorb_layers, k, res) ==
    IF k > Len(absorb_to_layer.keys) THEN [res |-> res, no_absorb_layers |-> no_absorb_layers]
    ELSE LET key == absorb_to_layer.keys[k]
             layers == absorb_to_layer.map[key]
         IN  IF get_module(nodes, key).class \notin DOMAIN supported_torch_module_to_aten
             THEN remove_unsupported_layers_first(nodes, absorb_to_layer,
                      no_absorb_layers \o layers, k + 1, res)
             ELSE IF ~LayerSupported(nodes, layers[1])
             THEN remove_unsupported_layers_first(nodes, absorb_to_layer,
                      no_absorb_layers \o layers, k + 1, res)
             ELSE remove_unsupported_layers_first(nodes, absorb_to_layer, no_absorb_layers, k + 1,
                      [keys |-> Append(res.keys, key), map |-> res.map @@ (key :> layers)])

\* GraphTrace.remove_unsupported_layers, from the k-th key on:
\* [res, no_absorb_layers]
RECURSIVE remove_unsupported_layers(_, _, _, _, _)
remove_unsupported_layers(nodes, absorb_to_layer, no_absorb_layers, k, res) ==
    IF k > Len(absorb_to_layer.keys) THEN [res |-> res, no_absorb_layers |-> no_absorb_layers]
    ELSE LET key == absorb_to_layer.keys[k]
             layers == absorb_to_layer.map[key]
         IN  IF get_module(nodes, key).class \notin DOMAIN supported_torch_module_to_aten
             THEN remove_unsupported_layers(nodes, absorb_to_layer,
                      no_absorb_layers \o layers, k + 1, res)
             ELSE IF \E i \in DOMAIN layers : ~LayerSupported(nodes, layers[i])
             THEN remove_unsupported_layers(nodes, absorb_to_layer,
                      no_absorb_layers \o layers, k + 1, res)
             ELSE remove_unsupported_layers(nodes, absorb_to_layer, no_absorb_layers, k + 1,
                      [keys |-> Append(res.keys, key), map |-> res.map @@ (key :> layers)])

\* GraphTrace.get_absorb_to_layer on a model that was traced:
\* [grouped, res, no_absorb_layers]
get_absorb_to_layer_traced(nodes, op_types, skip_unsupported_layers) ==
    LET wanted == get_nodes(nodes, mapping_torch_module_to_aten(op_types))
        acc == GroupByAbsorb(nodes, wanted, get_prev_absorb_layer(nodes, wanted), 1,
                             [absorb_to_layer |-> NoLayers, no_absorb_layers |-> <<>>])
    IN  IF skip_unsupported_layers
        THEN [grouped |-> acc] @@ remove_unsupported_layers(nodes, acc.absorb_to_layer,
                                                            acc.no_absorb_layers, 1, NoLayers)
        ELSE [grouped |-> acc, res |-> acc.absorb_to_layer,
              no_absorb_layers |-> acc.no_absorb_layers]

\* the op_types a trace is asked for
TraceOpTypes == {{"Linear"}, {"Linear", "Conv2d"}, {"Linear", "GELU"}}

GraphFrame == UNCHANGED smoothVars /\ UNCHANGED <<tune, ipex, cpu, train>>

NoGraphUse ==
    /\ NoObject
    /\ fwd = FwdIdle /\ sc = ScIdle /\ calib = CalibIdle
    /\ tune = TuneIdle /\ ipex = IpexIdle /\ cpu = CpuIdle /\ train = TrainIdle

InitTrace ==
    /\ NoGraphUse
    /\ \E nodes \in Graphs(MaxNodes, KindOps) :
           graph = [done |-> FALSE, nodes |-> nodes, op_types |-> {}, wanted |-> <<>>,
                    prev_absorb_layer |-> <<>>]

\* nodes = get_nodes(...); get_prev_absorb_layer(nodes)
GetPrevAbsorbLayer(op_types) ==
    /\ ~graph.done
    /\ LET wanted == get_nodes(graph.nodes, mapping_torch_module_to_aten(op_types))
       IN  graph' = [graph EXCEPT !.done = TRUE, !.op_types = op_types, !.wanted = wanted,
                                  !.prev_absorb_layer =
                                      get_prev_absorb_layer(graph.nodes, wanted)]
    /\ GraphFrame

NextTrace == \E op_types \in {{"Linear"}, {"Linear", "LayerNorm"}} : GetPrevAbsorbLayer(op_types)

SpecTrace == InitTrace /\ [][NextTrace]_vars

InitLayers ==
    /\ NoGraphUse
    /\ \E nodes \in Graphs(MaxLayers, LayerOps) :
           graph = [done |-> FALSE, nodes |-> nodes, op_types |-> {},
                    grouped |-> [absorb_to_layer |-> NoLayers, no_absorb_layers |-> <<>>],
                    res |-> NoLayers, no_absorb_layers |-> <<>>]

\* GraphTrace.get_absorb_to_layer(model, example_input, op_types)
GetAbsorbToLayer(op_types) ==
    /\ ~graph.done
    /\ \E r \in {get_absorb_to_layer_traced(graph.nodes, op_types, TRUE)} :
           graph' = [graph EXCEPT !.done = TRUE, !.op_types = op_types,
                                  !.grouped = r.grouped, !.res = r.res,
                                  !.no_absorb_layers = r.no_absorb_layers]
    /\ GraphFrame

NextLayers == \E op_types \in TraceOpTypes : GetAbsorbToLayer(op_types)

SpecLayers == InitLayers /\ [][NextLayers]_vars


\* ---------------------------------------------------------------------
\* CpuInfo and generate_activation_observer
\* ---------------------------------------------------------------------

\* calls of generate_activation_observer in one process
MaxUses == 3

\* what cpuinfo, the cpuid instruction and psutil report on the machine
Machines ==
    [arch : {"X86_64", "ARM_8", "PPC_64"}, max_extension_support : {6, 7},
     vnni_bit : BOOLEAN, bf16_bit : BOOLEAN, sockets : {0, 1, 2}, cores : {4}]

\* CpuInfo.__init__: the object built, or the exception of the division
CpuInfo(machine) ==
    LET x86 == machine.arch = "X86_64" /\ machine.max_extension_support >= 7
        _sockets == IF machine.arch = "ARM_8" THEN 1 ELSE machine.sockets
    IN  IF _sockets = 0 THEN [exc |-> "ZeroDivisionError"]
        ELSE [exc |-> "none",
              _bf16 |-> x86 /\ machine.bf16_bit,
              _vnni |-> x86 /\ machine.vnni_bit,
              _sockets |-> _sockets,
              _cores |-> machine.cores,
              _cores_per_socket |-> machine.cores \div _sockets]

\* kl_activation_observer / minmax_activation_observer after the updates
ActivationObserver(name, scheme, reduce_range) ==
    [name |-> name,
     dtype |-> IF scheme = "sym" THEN "torch.qint8" ELSE "torch.quint8",
     qscheme |-> IF scheme = "sym" THEN "torch.per_tensor_symmetric"
                 ELSE "torch.per_tensor_affine",
     reduce_range |-> reduce_range,
     quant_min |-> IF scheme = "sym" THEN -128 ELSE 0,
     quant_max |-> IF scheme = "sym" THEN 127 ELSE 255]

\* smoothquant_kl_activation_observer / smoothquant_minmax_activation_observer
SmoothQuantActivationObserver(act_observer, smooth_quant_enable) ==
    [name |-> "SmoothQuantActivationObserver",
     smooth_quant_enabled |-> smooth_quant_enable,
     dtype |-> "torch.quint8", qscheme |-> "torch.per_tensor_affine",
     reduce_range |-> FALSE, quant_min |-> 0, quant_max |-> 255,
     act_observer |-> act_observer]

\* generate_activation_observer, given the CpuInfo object it built
generate_activation_observer(info, scheme, algorithm, smooth_quant, smooth_quant_enable) ==
    LET REDUCE_RANGE == ~info._vnni
        kl_activation_observer == ActivationObserver("HistogramObserver", scheme, REDUCE_RANGE)
        minmax_activation_observer == ActivationObserver("MinMaxObserver", scheme, REDUCE_RANGE)
    IN  IF smooth_quant /\ smooth_quant_enable
        THEN IF algorithm = "kl"
             THEN SmoothQuantActivationObserver(kl_activation_observer, smooth_quant_enable)
             ELSE IF algorithm = "minmax"
             THEN SmoothQuantActivationObserver(minmax_activation_observer, smooth_quant_enable)
             ELSE None
        ELSE IF algorithm = "kl" THEN kl_activation_observer
             ELSE IF algorithm = "minmax" THEN minmax_activation_observer
             ELSE None

InitCpu ==
    /\ NoObject
    /\ fwd = FwdIdle /\ sc = ScIdle /\ calib = CalibIdle
    /\ tune = TuneIdle /\ ipex = IpexIdle /\ graph = GraphIdle /\ train = TrainIdle
    /\ \E machine \in Machines :
           cpu = [uses |-> 0, detections |-> 0, machine |-> machine, exc |-> "none",
                  observer |-> None]

\* one call of generate_activation_observer; detections counts the runs of
\* CpuInfo.__init__
GenerateActivationObserver(scheme, algorithm, smooth_quant, smooth_quant_enable) ==
    /\ cpu.uses < MaxUses
    /\ \E info \in {CpuInfo(cpu.machine)} :
           cpu' = [cpu EXCEPT
                      !.uses = @ + 1,
                      !.detections = @ + 1,
                      !.exc = info.exc,
                      !.observer =
                          IF info.exc # "none" THEN None
                          ELSE generate_activation_observer(info, scheme, algorithm,
                                                            smooth_quant, smooth_quant_enable)]
    /\ UNCHANGED smoothVars /\ UNCHANGED <<tune, ipex, graph, train>>

NextCpu ==
    \E scheme \in {"sym", "asym"}, algorithm \in {"kl", "minmax", "percentile"},
       smooth_quant \in BOOLEAN, smooth_quant_enable \in BOOLEAN :
        GenerateActivationObserver(scheme, algorithm, smooth_quant, smooth_quant_enable)

SpecCpu == InitCpu /\ [][NextCpu]_vars





\* ---------------------------------------------------------------------
\* RandomTuneStrategy.next_tune_cfg: the quantization mode of each operator
\* ---------------------------------------------------------------------

\* operators of the tuning space
MaxOps == 3

\* the operator items, in the order the capability query found them
OpItems == SubSeq(<<"conv1", "fc1", "fc2", "fc3", "fc4">>, 1, MaxOps)

\* the quantization modes an operator can support
CapabilityChoices ==
    {{}, {"weight_only"}, {"static"}, {"static", "dynamic"}, {"bf16", "fp32"}, {"fp32"},
     {"static", "dynamic", "bf16", "fp32"}, {"dynamic", "fp32", "weight_only"}}

\* tuning_space.query_items_by_quant_mode: the operator items that support
\* the mode, in discovery order
query_items_by_quant_mode(capability, quant_mode) ==
    SelectSeq(OpItems, LAMBDA item : quant_mode \in capability[item])

query_order == <<"static", "dynamic", "bf16", "fp32">>

\* the loop over query_order that takes every item of a mode, seen or not
RECURSIVE QuantModeWiseItems_unfiltered(_, _, _, _)
QuantModeWiseItems_unfiltered(capability, k, pre_items, quant_mode_wise_items) ==
    IF k > Len(query_order) THEN quant_mode_wise_items
    ELSE QuantModeWiseItems_unfiltered(capability, k + 1, pre_items,
             Append(quant_mode_wise_items,
                    [quant_mode |-> query_order[k],
                     items |-> query_items_by_quant_mode(capability, query_order[k])]))

\* the loop over query_order: quant_mode_wise_items, an OrderedDict kept as
\* the sequence of its (quant_mode, items) pairs
RECURSIVE QuantModeWiseItems(_, _, _, _)
QuantModeWiseItems(capability, k, pre_items, quant_mode_wise_items) ==
    IF k > Len(query_order) THEN quant_mode_wise_items
    ELSE LET items == query_items_by_quant_mode(capability, query_order[k])
             filtered_items == SelectSeq(items, LAMBDA item : item \notin pre_items)
         IN  QuantModeWiseItems(capability, k + 1,
                 pre_items \cup {items[i] : i \in DOMAIN items},
                 Append(quant_mode_wise_items,
                        [quant_mode |-> query_order[k], items |-> filtered_items]))

\* initial_op_quant_mode
RECURSIVE initial_op_quant_mode(_, _, _)
initial_op_quant_mode(items_lst, target_quant_mode, op_item_dtype_dict) ==
    IF items_lst = <<>> THEN op_item_dtype_dict
    ELSE initial_op_quant_mode(Tail(items_lst), target_quant_mode,
             DictUpdate(op_item_dtype_dict, Head(items_lst) :> target_quant_mode))

\* the loop over quant_mode_wise_items.items() that fills op_item_dtype_dict
RECURSIVE OpItemDtypeDict(_, _)
OpItemDtypeDict(quant_mode_wise_items, op_item_dtype_dict) ==
    IF quant_mode_wise_items = <<>> THEN op_item_dtype_dict
    ELSE OpItemDtypeDict(Tail(quant_mode_wise_items),
             initial_op_quant_mode(Head(quant_mode_wise_items).items,
                                   Head(quant_mode_wise_items).quant_mode,
                                   op_item_dtype_dict))

InitSpace ==
    /\ NoObject
    /\ fwd = FwdIdle /\ sc = ScIdle /\ calib = CalibIdle
    /\ ipex = IpexIdle /\ graph = GraphIdle /\ cpu = CpuIdle /\ train = TrainIdle
    /\ \E capability \in [{OpItems[i] : i \in DOMAIN OpItems} -> CapabilityChoices] :
           tune = [state |-> "space", capability |-> capability,
                   initial_op_tuning_cfg |-> EmptyDict,
                   quant_mode_wise_items |-> <<>>,
                   op_item_dtype_dict |-> EmptyDict]

\* next_tune_cfg up to the construction of the sampler
InitialQuantModes ==
    /\ tune.state = "space"
    /\ \E q \in {QuantModeWiseItems(tune.capability, 1, {}, <<>>)} :
           tune' = [tune EXCEPT
                       !.state = "sampling",
                       !.initial_op_tuning_cfg = [item \in DOMAIN tune.capability |-> "fp32"],
                       !.quant_mode_wise_items = q,
                       !.op_item_dtype_dict = OpItemDtypeDict(q, EmptyDict)]
    /\ TuneFrame

NextSpace == InitialQuantModes

SpecSpace == InitSpace /\ [][NextSpace]_vars


\* ---------------------------------------------------------------------
\* Calibration.calibrate and the forward hooks of the model
\* ---------------------------------------------------------------------

\* calls of calibrate on one model
MaxCalibrations == 2

\* q_func of the Calibration object: not given, given, or given and raising
QFuncs == {"None", "returns", "raises"}

\* Calibration._add_min_max_observer: a hook is registered on every module of
\* modules and its handle kept; a hook is [id, name]
_add_min_max_observer(st, modules) ==
    LET order == CHOOSE seq \in [1..Cardinality(modules) -> modules] :
                     \A i, j \in DOMAIN seq : i # j => seq[i] # seq[j]
        handles == [i \in DOMAIN order |-> [id |-> st.next_id + i - 1, name |-> order[i]]]
    IN  [st EXCEPT !.hook_handles = handles,
                   !.forward_hooks = @ \cup {handles[i] : i \in DOMAIN handles},
                   !.next_id = @ + Len(handles)]

\* Calibration._remove_observer: hook_handle.remove() for the kept handles
_remove_observer(st) ==
    [st EXCEPT !.forward_hooks = @ \ {st.hook_handles[i] : i \in DOMAIN st.hook_handles}]

\* model_forward on a model that raises on batch number bad of the loader
\* (0: on none); the loaders yield (input, label) pairs, and the second loop
\* of model_forward meets the same batch again:
\* [exc, forwarded]
RaisingForward(dataloader, iters, bad) ==
    LET passed == ForwardBare(dataloader, iters, 1, 0)
    IN  IF bad \in 1..Len(passed)
        THEN [exc |-> "RuntimeError",
              forwarded |-> SubSeq(passed, 1, bad - 1) \o SubSeq(passed, 1, bad - 1)]
        ELSE [exc |-> "none", forwarded |-> model_forward(dataloader, iters)]

\* Calibration._dump_min_max: [exc, forwarded]
RaisingDumpMinMax(dataloader, q_func, calib_iter, bad) ==
    IF q_func = "raises" THEN [exc |-> "RuntimeError", forwarded |-> <<>>]
    ELSE IF q_func = "returns" THEN [exc |-> "none", forwarded |-> dataloader]
    ELSE IF dataloader = <<>> THEN [exc |-> "AssertionError", forwarded |-> <<>>]
    ELSE RaisingForward(dataloader, calib_iter, bad)

\* Calibration.calibrate on the state
\* [dataloader, q_func, bad, next_id, forward_hooks, hook_handles,
\*  input_mins, input_maxes, exc, calibrations]
CalibrateHooked(st, calib_iter, op_types) ==
    LET st1 == _add_min_max_observer(
                   [st EXCEPT !.input_mins = EmptyDict, !.input_maxes = EmptyDict],
                   HookModules(op_types))
        run == RaisingDumpMinMax(st.dataloader, st.q_func, calib_iter, st.bad)
        seen == FeedBatches([input_mins |-> EmptyDict, input_maxes |-> EmptyDict],
                            {h.name : h \in st1.forward_hooks}, run.forwarded)
        st2 == [st1 EXCEPT !.input_mins = seen.input_mins, !.input_maxes = seen.input_maxes,
                           !.exc = run.exc]
    IN  IF run.exc # "none" THEN st2 ELSE _remove_observer(st2)

InitCalibration ==
    /\ NoObject
    /\ fwd = FwdIdle /\ sc = ScIdle
    /\ OnlySmooth
    /\ calib \in [dataloader : DataLoaders \cup {<<>>},
                  q_func : QFuncs,
                  bad : 0..2,
                  next_id : {1},
                  forward_hooks : {{}},
                  hook_handles : {<<>>},
                  input_mins : {EmptyDict},
                  input_maxes : {EmptyDict},
                  exc : {"none"},
                  calibrations : {0}]

\* calib.calibrate(calib_iter, op_types)
Calibrate(calib_iter, op_types) ==
    /\ calib.calibrations < MaxCalibrations
    /\ \E r \in {CalibrateHooked(calib, calib_iter, op_types)} :
           calib' = [r EXCEPT !.calibrations = @ + 1]
    /\ UNCHANGED <<model, sq, env, calls, last, fwd, sc>>
    /\ UNCHANGED <<tune, ipex, graph, cpu, train>>

NextCalibration ==
    \E calib_iter \in {1, 2}, op_types \in {{"Linear"}, {"Linear", "LayerNorm"}, {"Conv2d"}} :
        Calibrate(calib_iter, op_types)

SpecCalibration == InitCalibration /\ [][NextCalibration]_vars



\* ---------------------------------------------------------------------
\* CompressionManager.CallBacks (training.py)
\* ---------------------------------------------------------------------

MaxCallbacks == 2

\* the components a CompressionManager is built around
Components == {[scheduler |-> FALSE, name |-> "component", components |-> <<>>],
               [scheduler |-> TRUE, name |-> "scheduler",
                components |-> <<"components[0]", "components[1]">>]}

\* CallBacks.__init__: the object the callbacks are passed on to
CallBacks__init__(component) ==
    IF component.scheduler THEN component.components[1] ELSE component.name

\* a call of a callback with its arguments
Call(name, args) == [name |-> name, args |-> args]

\* CallBacks.on_train_begin
on_train_begin(dataloader) == Call("on_train_begin", [dataloader |-> dataloader])

\* CallBacks.on_train_end
on_train_end == Call("on_train_end", [none |-> TRUE])

\* CallBacks.on_epoch_begin
on_epoch_begin(epoch) == Call("on_epoch_begin", [epoch |-> epoch])

\* CallBacks.on_step_begin
on_step_begin(batch_id) == Call("on_step_begin", [batch_id |-> batch_id])

\* CallBacks.on_after_compute_loss
on_after_compute_loss(input, student_output, student_loss, teacher_output) ==
    Call("on_after_compute_loss",
         [input |-> input, student_output |-> student_output,
          student_loss |-> student_loss, teacher_output |-> "None"])

\* CallBacks.on_before_optimizer_step
on_before_optimizer_step == Call("on_before_optimizer_step", [none |-> TRUE])

\* CallBacks.on_step_end
on_step_end == Call("on_step_end", [none |-> TRUE])

\* CallBacks.on_epoch_end
on_epoch_end == Call("on_epoch_end", [none |-> TRUE])

InitTrain ==
    /\ NoObject
    /\ fwd = FwdIdle /\ sc = ScIdle /\ calib = CalibIdle
    /\ tune = TuneIdle /\ ipex = IpexIdle /\ graph = GraphIdle /\ cpu = CpuIdle
    /\ \E component \in Components :
           train = [component |-> component,
                    callbacks |-> CallBacks__init__(component),
                    made |-> <<>>, received |-> <<>>]

\* the training loop has called a callback of the manager with made, and
\* the callback has made the call passed on self.callbacks
CallBack(made, passed) ==
    [train EXCEPT
        !.made = Append(@, made),
        !.received = Append(@, [by |-> train.callbacks, name |-> passed.name,
                                args |-> passed.args])]

TrainFrame == UNCHANGED smoothVars /\ UNCHANGED <<tune, ipex, graph, cpu>>

OnTrainBegin ==
    /\ Len(train.made) < MaxCallbacks
    /\ \E dataloader \in {"None", "dataloader"} :
           train' = CallBack(Call("on_train_begin", [dataloader |-> dataloader]),
                             on_train_begin(dataloader))
    /\ TrainFrame

OnTrainEnd ==
    /\ Len(train.made) < MaxCallbacks
    /\ train' = CallBack(Call("on_train_end", [none |-> TRUE]), on_train_end)
    /\ TrainFrame

OnEpochBegin ==
    /\ Len(train.made) < MaxCallbacks
    /\ \E epoch \in {"0", "1"} :
           train' = CallBack(Call("on_epoch_begin", [epoch |-> epoch]),
                             on_epoch_begin(epoch))
    /\ TrainFrame

OnStepBegin ==
    /\ Len(train.made) < MaxCallbacks
    /\ \E batch_id \in {"0", "1"} :
           train' = CallBack(Call("on_step_begin", [batch_id |-> batch_id]),
                             on_step_begin(batch_id))
    /\ TrainFrame

OnAfterComputeLoss ==
    /\ Len(train.made) < MaxCallbacks
    /\ \E input \in {"x0", "x1"}, student_output \in {"y0"}, student_loss \in {"loss0"},
          teacher_output \in {"None", "t0"} :
           train' = CallBack(Call("on_after_compute_loss",
                                  [input |-> input, student_output |-> student_output,
                                   student_loss |-> student_loss,
                                   teacher_output |-> teacher_output]),
                             on_after_compute_loss(input, student_output, student_loss,
                                                   teacher_output))
    /\ TrainFrame

OnBeforeOptimizerStep ==
    /\ Len(train.made) < MaxCallbacks
    /\ train' = CallBack(Call("on_before_optimizer_step", [none |-> TRUE]),
                         on_before_optimizer_step)
    /\ TrainFrame

OnStepEnd ==
    /\ Len(train.made) < MaxCallbacks
    /\ train' = CallBack(Call("on_step_end", [none |-> TRUE]), on_step_end)
    /\ TrainFrame

OnEpochEnd ==
    /\ Len(train.made) < MaxCallbacks
    /\ train' = CallBack(Call("on_epoch_end", [none |-> TRUE]), on_epoch_end)
    /\ TrainFrame

NextTrain ==
    \/ OnTrainBegin
    \/ OnTrainEnd
    \/ OnEpochBegin
    \/ OnStepBegin
    \/ OnAfterComputeLoss
    \/ OnBeforeOptimizerStep
    \/ OnStepEnd
    \/ OnEpochEnd

SpecTrain == InitTrain /\ [][NextTrain]_vars

----------------------------------------------------------------------------
(* Properties                                                              *)

\* the parameters a transform or revert can change
Weights(m) == [norm_weight |-> m.norm_weight, norm_bias |-> m.norm_bias,
               fc_weight |-> m.fc_weight]

\* this step is a call of op
Called(op) == calls' = calls + 1 /\ last'.op = op

\* the revert that opens a transform(folding) call from the current state raises
RevertRaises(folding) ==
    revert([Context EXCEPT !.sq.insert_mul = ~folding,
                           !.sq.allow_absorb = folding]).exc # "none"

\* a transform has been applied and not yet reverted
ScalesRecorded(s) ==
    s.weight_scale_info # EmptyDict \/ s.absorb_scales_info # EmptyDict

\* C1: transform(alpha=0.5, folding=True) on an untransformed model followed by
\* revert() leaves norm.weight, norm.bias and fc.weight equal, channel by
\* channel, to their values before the transform.
C1_FoldThenRevertRestores ==
    [][(/\ last.op = "transform" /\ last.folding /\ last.alpha = 1
        /\ last.ret = "model"
        /\ ~ScalesRecorded(last.sq_before)
        /\ Called("revert"))
       => Weights(model') = Weights(last.model_before)]_vars

\* C2: a second transform call with the same alpha, folding mode and calibration
\* parameters as the call before it leaves the same weights as that call did.
C2_SecondTransformSameWeights ==
    [][(/\ last.op = "transform" /\ last.ret = "model"
        /\ Called("transform")
        /\ last'.folding = last.folding
        /\ last'.alpha = last.alpha
        /\ last'.params = last.params)
       => (/\ last'.ret = "model"
           /\ Weights(model') = Weights(model)
           /\ model'.fc_wrapper = model.fc_wrapper)]_vars

\* C3: an insert-mode transform completes and wraps the targeted Linear layer
\* also when an earlier transform call on the object ended with no trace
\* available (absorb_to_layer left at None).
C3_InsertLegalAfterNoTrace ==
    [][(/\ sq.absorb_to_layer = None
        /\ Called("transform")
        /\ ~last'.folding)
       => (/\ last'.exc = "none"
           /\ ("Linear" \in last'.params.op_types => model'.fc_wrapper # None))]_vars

\* C4: when tracing fails, get_absorb_to_layer yields None and a fold-mode
\* transform call that gets as far as tracing returns the model as it is: no
\* weight or bias is multiplied, no scales are recorded and
\* _smoothquant_optimized is not set by the call.
C4_NoTraceNoScale ==
    [][(/\ Called("transform")
        /\ last'.folding
        /\ ~env.traceable
        /\ ~RevertRaises(TRUE))
       => (/\ get_absorb_to_layer(env.traceable, last'.params.op_types) = None
           /\ last'.exc = "none"
           /\ last'.ret = "ignored"
           /\ Weights(model') = Weights(model)
           /\ model'.fc_wrapper = model.fc_wrapper
           /\ ~ScalesRecorded(sq')
           /\ model'.smoothquant_optimized = model.smoothquant_optimized)]_vars

\* a fold-mode call on a model that cannot be traced has returned
C4_Witness ==
    /\ last.op = "transform" /\ last.folding /\ ~env.traceable
    /\ last.ret = "ignored"
    /\ sq.absorb_to_layer = None

\* C5: cal_scale gives exactly 1 on every channel whose weight maximum is zero.
C5_ZeroWeightScaleOne ==
    sc.done =>
        \A c \in Channels :
            IsZero(WeightMax(sc.weights)[c]) => sc.scale[c] = One

\* C6: cal_scale gives exactly 1 on every channel whose activation power
\* input_max ^ alpha is zero, whatever the weights of the channel.
C6_ZeroInputPowerScaleOne ==
    sc.done =>
        \A c \in Channels :
            IsZero(PowN(sc.input_max[c], sc.alpha)) => sc.scale[c] = One

\* all orders of a sequence
PermsOf(seq) ==
    {[i \in 1..Len(seq) |-> seq[f[i]]] :
        f \in {g \in [1..Len(seq) -> 1..Len(seq)] :
                 \A i, j \in 1..Len(seq) : i # j => g[i] # g[j]}}

\* C7: the per-channel input_mins / input_maxes the hook has accumulated for
\* "fc" are the ones it accumulates when the same batches arrive in any other
\* order.
C7_HookOrderIndependent ==
    \A perm \in PermsOf(calib.fed) :
        FeedBatches([input_mins |-> EmptyDict, input_maxes |-> EmptyDict], {"fc"},
                    [i \in 1..Len(perm) |-> Batch(TRUE, perm[i])])
          = [input_mins |-> calib.input_mins, input_maxes |-> calib.input_maxes]

\* several batches were merged and the merge changed the first batch's maxima
C7_Witness ==
    /\ calib.pending = {}
    /\ Len(calib.fed) >= 2
    /\ calib.input_maxes["fc"] #
           save_input_hook([input_mins |-> EmptyDict, input_maxes |-> EmptyDict],
                           "fc", calib.fed[1]).input_maxes["fc"]

MinInt(a, b) == IF a < b THEN a ELSE b

\* C8: model_forward runs exactly min(iters, N) forward passes when iters is
\* not -1 and exactly N when iters is -1.
C8_ForwardPassCount ==
    fwd.done =>
        Len(fwd.forwarded) = IF fwd.iters = -1 THEN Len(fwd.dataloader)
                             ELSE MinInt(fwd.iters, Len(fwd.dataloader))

SameCalibParams(p, s) ==
    /\ p.percentile = s.percentile
    /\ p.op_types = s.op_types
    /\ p.scales_per_op = s.scales_per_op
    /\ p.calib_iter = s.calib_iter

\* what a transform call does once calibration is skipped: no forward pass,
\* statistics untouched, scales computed from the retained statistics
ReusesStatistics ==
    /\ last'.passes = 0
    /\ sq'.input_mins = sq.input_mins
    /\ sq'.input_maxes = sq.input_maxes
    /\ (last'.ret = "model" /\ sq.record_max_info) =>
         \A key \in DOMAIN sq'.absorb_to_layer :
             sq'.max_value_info[key].input_minmax =
                 <<sq.input_mins[sq'.absorb_to_layer[key][1]],
                   sq.input_maxes[sq'.absorb_to_layer[key][1]]>>
    /\ (last'.ret = "model" /\ ~sq.record_max_info) =>
         LET scales == _cal_scales(
                 revert([Context EXCEPT !.sq.insert_mul = ~last'.folding,
                                        !.sq.allow_absorb = last'.folding]).model,
                 sq'.absorb_to_layer,
                 InputMaxesAbs(sq.input_mins, sq.input_maxes),
                 last'.alpha)
         IN  /\ sq'.weight_scale_info = scales.weight_scales_info
             /\ sq'.absorb_scales_info = scales.absorb_scales_info

C10_ChangedParamsRecalibrate ==
    [][(/\ last.op = "transform" /\ last.passes > 0 /\ last.ret = "model"
        /\ env.traceable
        /\ Called("transform")
        /\ last'.params # last.params
        /\ ~RevertRaises(last'.folding))
       => (/\ last'.exc = "none"
           /\ last'.ret = "model"
           /\ last'.passes > 0)]_vars

\* C11: a transform call that finds the model output changed (the equivalence
\* check fails) still returns the transformed model: no exception, the model
\* is marked _smoothquant_optimized = True, a scale is recorded for revert for
\* every layer the call adjusted and, in insert mode, every adjusted Linear
\* layer stays wrapped.
C11_MismatchStillReturnsModel ==
    [][(Called("transform") /\ last'.warned)
       => (/\ last'.exc = "none"
           /\ last'.ret = "model"
           /\ model'.smoothquant_optimized = "True"
           /\ DOMAIN sq'.absorb_scales_info = DOMAIN sq'.absorb_to_layer
           /\ DOMAIN sq'.weight_scale_info = ListedLayers(sq'.absorb_to_layer)
           /\ (~last'.folding /\ "fc" \in ListedLayers(sq'.absorb_to_layer)
                   => model'.fc_wrapper # None))]_vars

\* a transform has returned the model after its output changed
C11_Witness ==
    /\ calls = 1
    /\ last.op = "transform" /\ last.warned /\ last.ret = "model"
    /\ ScalesRecorded(sq)

----------------------------------------------------------------------------
(* The tune strategy                                                       *)

\* the per-operator assignments the op-wise sampler enumerated
EnumeratedOps ==
    {tune.op_tuning_cfg_lst[i].ops : i \in DOMAIN tune.op_tuning_cfg_lst}

CalibOptions ==
    {tune.calib_sampling_size_lst[i] : i \in DOMAIN tune.calib_sampling_size_lst}

\* C12: with at least one enumerated configuration and one calibration
\* sampling size, next_tune_cfg yields whatever indices are drawn and never
\* returns, and a strategy driven by it is never in EXHAUSTED.
C12_RandomNeverExhausts ==
    (/\ tune.sampler = "random"
     /\ Len(tune.op_tuning_cfg_lst) >= 1
     /\ Len(tune.calib_sampling_size_lst) >= 1)
    => (/\ tune.state # "EXHAUSTED"
        /\ tune.result.kind # "failure"
        /\ \A j \in DOMAIN tune.calib_sampling_size_lst, i \in DOMAIN tune.op_tuning_cfg_lst :
               ~next_tune_cfg(tune.op_tuning_cfg_lst, tune.calib_sampling_size_lst, j, i).stop)

\* the random sampler has yielded a third candidate
C12_Witness ==
    /\ tune.sampler = "random"
    /\ tune.state = "APPLY"
    /\ tune.trials >= 2

\* C13: every configuration the random sampler yields is one of the enumerated
\* configurations with one of the calibration sampling size options, and at
\* every request every (configuration, size) pair can be the one yielded,
\* whatever was yielded before.
C13_YieldsAnyEnumeratedPair ==
    tune.sampler = "random"
    => (/\ (tune.cur # NoCfg =>
               /\ tune.cur.ops \in EnumeratedOps
               /\ tune.cur.calib_sampling_size \in CalibOptions)
        /\ (tune.state = "PROPOSE" =>
               \A j \in DOMAIN tune.calib_sampling_size_lst, i \in DOMAIN tune.op_tuning_cfg_lst :
                   ENABLED (/\ ProposeRandom(j, i)
                            /\ tune'.state = "APPLY"
                            /\ tune'.cur = [ops |-> tune.op_tuning_cfg_lst[i].ops,
                                            calib_sampling_size |->
                                                tune.calib_sampling_size_lst[j]])))

\* the same (configuration, size) pair has been yielded twice in a row
C13_Witness ==
    /\ tune.sampler = "random"
    /\ Len(tune.history) >= 1
    /\ tune.state = "EVAL"
    /\ tune.cur = tune.history[Len(tune.history)].cfg

\* C14 as stated: a candidate is accepted exactly when baseline - accuracy is
\* at most the tolerance, and after a rejected candidate the strategy proposes
\* the next one.
C14_AsStated ==
    [][tune.state = "RECORD"
       => IF tune.baseline - tune.acc <= tune.tolerance
          THEN tune'.state = "ACCEPTED"
          ELSE tune'.state = "PROPOSE"]_vars

\* C14: a candidate is accepted exactly when baseline - accuracy is at most the
\* tolerance; the strategy stops at the first accepted candidate, which is its
\* result; after a rejected candidate it proposes the next one unless the
\* trial or time budget is used up, and then it moves to TIMEOUT.
C14_AcceptWithinTolerance ==
    [][/\ (tune.state = "RECORD"
           => IF tune.baseline - tune.acc <= tune.tolerance
              THEN tune'.state = "ACCEPTED"
              ELSE /\ tune'.state \in {"PROPOSE", "TIMEOUT"}
                   /\ (tune'.trials >= tune.max_trials => tune'.state = "TIMEOUT"))
       /\ (tune.state = "ACCEPTED"
           => /\ tune'.state = "DONE"
              /\ tune'.result = [kind |-> "accepted", cfg |-> tune.cur]
              /\ tune.history[Len(tune.history)].cfg = tune.cur
              /\ \A k \in 1..(Len(tune.history) - 1) :
                     tune.baseline - tune.history[k].acc > tune.tolerance)]_vars

\* a candidate exactly at the tolerance was accepted after a rejected one
C14_Witness ==
    /\ tune.state = "DONE"
    /\ tune.result.kind = "accepted"
    /\ Len(tune.history) = 2
    /\ tune.history[1].acc = 850
    /\ tune.history[2].acc = 890

\* C15: with a finite maximum trial count every run ends in DONE, reached from
\* ACCEPTED, TIMEOUT or EXHAUSTED after at most that many trials, also with the
\* random sampler; a run that ends by TIMEOUT returns the best trial so far,
\* or the baseline when there is none.
C15_TerminatesWithinBudget ==
    /\ <>(tune.state = "DONE")
    /\ [](tune.trials <= tune.max_trials /\ Len(tune.history) = tune.trials)
    /\ [](tune.state = "DONE" =>
             /\ tune.result.kind \in {"accepted", "best", "baseline", "failure"}
             /\ (tune.result.kind = "baseline" => tune.history = <<>>)
             /\ (tune.result.kind = "best" =>
                    \E i \in DOMAIN tune.history :
                        /\ tune.history[i].cfg = tune.result.cfg
                        /\ \A k \in DOMAIN tune.history :
                               tune.history[k].acc <= tune.history[i].acc))
    /\ [][tune'.state = "DONE" => tune.state \in {"ACCEPTED", "TIMEOUT", "EXHAUSTED"}]_vars

\* a run with the random sampler has used up its trial budget and returned
\* the best trial
C15_Witness ==
    /\ tune.sampler = "random"
    /\ tune.state = "DONE"
    /\ tune.result.kind = "best"
    /\ tune.trials = tune.max_trials
    /\ tune.trials >= 2

\* C16: a proposed candidate is applied, then evaluated, then recorded; only
\* after the record can the strategy move to ACCEPTED or to the next proposal,
\* TIMEOUT is entered only between trials, EXHAUSTED only from a proposal.
C16_TrialRunsToCompletion ==
    [][/\ (tune.state = "APPLY" => tune'.state = "EVAL" /\ tune'.cur = tune.cur)
       /\ (tune.state = "EVAL" => tune'.state = "RECORD" /\ tune'.cur = tune.cur)
       /\ (tune.state = "RECORD"
           => /\ tune'.history = Append(tune.history, [cfg |-> tune.cur, acc |-> tune.acc])
              /\ tune'.state \in {"ACCEPTED", "TIMEOUT", "PROPOSE"})
       /\ (tune'.state = "TIMEOUT" => tune.state \in {"RECORD", "BASELINE_EVAL"})
       /\ (tune'.state = "ACCEPTED" => tune.state = "RECORD")
       /\ (tune'.state = "PROPOSE" => tune.state \in {"RECORD", "BASELINE_EVAL"})
       /\ (tune'.state = "EXHAUSTED" => tune.state = "PROPOSE")]_vars

\* the time budget ran out while a trial was in flight and the trial was
\* still recorded
C16_Witness ==
    /\ tune.state = "TIMEOUT"
    /\ tune.trials >= 1
    /\ tune.trials < tune.max_trials

----------------------------------------------------------------------------
(* update_sq_scale                                                         *)

\* the record r without the fields in F
Rest(r, F) == [k \in (DOMAIN r) \ F |-> r[k]]

\* the op info new differs from old at most in scale, zero_point and
\* smooth_quant_scaling_factor of the first input tensor and in scale and
\* smooth_quant_scaling_factor of the first weight tensor
OnlyScaleFieldsDiffer(old, new) ==
    /\ Rest(new, {"input_tensor_infos", "weight_tensor_infos"})
         = Rest(old, {"input_tensor_infos", "weight_tensor_infos"})
    /\ Len(new.input_tensor_infos) = Len(old.input_tensor_infos)
    /\ Len(new.weight_tensor_infos) = Len(old.weight_tensor_infos)
    /\ \A i \in 2..Len(old.input_tensor_infos) :
           new.input_tensor_infos[i] = old.input_tensor_infos[i]
    /\ \A i \in 2..Len(old.weight_tensor_infos) :
           new.weight_tensor_infos[i] = old.weight_tensor_infos[i]
    /\ Rest(new.input_tensor_infos[1], {"scale", "zero_point", "smooth_quant_scaling_factor"})
         = Rest(old.input_tensor_infos[1], {"scale", "zero_point", "smooth_quant_scaling_factor"})
    /\ Rest(new.weight_tensor_infos[1], {"scale", "smooth_quant_scaling_factor"})
         = Rest(old.weight_tensor_infos[1], {"scale", "smooth_quant_scaling_factor"})

\* the op info is one that update_sq_scale is to rewrite
Targeted(v1) == v1.fqn \in DOMAIN ipex.smoothquant_scale_info /\ v1.op_type_is_module

\* C17: the document update_sq_scale writes back has the modules and ops of the
\* document it read; an op whose fqn is in the scale info and whose
\* op_type_is_module is true differs at most in the five scale fields, every
\* other op and every entry without ops is written back as it was read.
C17_OnlyScaleFieldsRewritten ==
    ipex.done
    => (/\ DOMAIN ipex.config = DOMAIN ipex.read
        /\ \A m \in DOMAIN ipex.read :
              LET old == ipex.read[m]
                  new == ipex.config[m]
              IN  IF "q_op_infos" \in DOMAIN old
                  THEN /\ DOMAIN new = DOMAIN old
                       /\ Rest(new, {"q_op_infos"}) = Rest(old, {"q_op_infos"})
                       /\ DOMAIN new.q_op_infos = DOMAIN old.q_op_infos
                       /\ \A n \in DOMAIN old.q_op_infos :
                              IF Targeted(old.q_op_infos[n])
                              THEN OnlyScaleFieldsDiffer(old.q_op_infos[n], new.q_op_infos[n])
                              ELSE new.q_op_infos[n] = old.q_op_infos[n]
                  ELSE new = old)

\* one op was rewritten, and an op named in the scale info that is not a
\* module was left as it was
C17_Witness ==
    /\ ipex.done
    /\ "q_op_infos" \in DOMAIN ipex.read["m0"]
    /\ "q_op_infos" \in DOMAIN ipex.read["m1"]
    /\ "0" \in DOMAIN ipex.read["m0"].q_op_infos
    /\ "0" \in DOMAIN ipex.read["m1"].q_op_infos
    /\ Targeted(ipex.read["m0"].q_op_infos["0"])
    /\ ipex.config["m0"] # ipex.read["m0"]
    /\ ipex.read["m1"].q_op_infos["0"].fqn \in DOMAIN ipex.smoothquant_scale_info
    /\ ~ipex.read["m1"].q_op_infos["0"].op_type_is_module
    /\ ipex.config["m1"] = ipex.read["m1"]

\* ---------------------------------------------------------------------
\* GraphTrace
\* ---------------------------------------------------------------------

\* the k-th node above u, the graph input being node 0
RECURSIVE Ancestor(_, _, _)
Ancestor(nodes, u, k) ==
    IF k = 0 \/ u = 0 THEN u ELSE Ancestor(nodes, nodes[u].input, k - 1)

\* the consumers of the output of cand, followed through skip ops: u is one
\* when cand is above it and only skip ops lie between them
Consumers(nodes, cand) ==
    {u \in DOMAIN nodes :
        \E k \in 1..Len(nodes) :
            /\ Ancestor(nodes, u, k) = cand
            /\ \A j \in 1..(k - 1) : Kind(nodes, Ancestor(nodes, u, j)) \in skip_ops_to_find_absorb}

\* the first node above u that is not a skip op
Candidate(nodes, u) ==
    LET ks == {k \in 1..Len(nodes) :
                  Kind(nodes, Ancestor(nodes, u, k)) \notin skip_ops_to_find_absorb}
    IN  Ancestor(nodes, u, CHOOSE k \in ks : \A j \in ks : k <= j)

Divergent(nodes, cand) ==
    \E u \in Consumers(nodes, cand) :
        nodes[u].kind \notin could_absorb_layers \cup skip_ops_to_find_absorb \cup {"aten::size"}

\* C19: get_prev_absorb_layer records a candidate for a node only if every
\* consumer of the candidate's output, followed through the skip ops and
\* aten::size left aside, is an absorbable op; if a consumer reached this way
\* is outside the absorbable and skip sets, None is recorded for the node.
C19_NoAbsorbOnDivergence ==
    graph.done =>
        \A k \in DOMAIN graph.wanted :
            LET node == graph.wanted[k]
                rec == graph.prev_absorb_layer[k]
            IN  /\ rec # NoNode =>
                       /\ rec = Candidate(graph.nodes, node)
                       /\ Kind(graph.nodes, rec) \in could_absorb_layers
                       /\ ~Divergent(graph.nodes, rec)
                /\ Divergent(graph.nodes, Candidate(graph.nodes, node)) => rec = NoNode

\* a node left without an absorbing layer because the output of its
\* candidate reaches, behind a skip op, an op that is neither absorbable nor
\* a skip op
C19_Witness ==
    /\ graph.done
    /\ \E k \in DOMAIN graph.wanted :
           LET cand == Candidate(graph.nodes, graph.wanted[k])
           IN  /\ graph.prev_absorb_layer[k] = NoNode
               /\ Kind(graph.nodes, cand) \in could_absorb_layers
               /\ \A u \in Uses(graph.nodes, cand) :
                      graph.nodes[u].kind \in could_absorb_layers \cup skip_ops_to_find_absorb
               /\ Divergent(graph.nodes, cand)

Names(seq) == {seq[i] : i \in DOMAIN seq}

KeptLayers(res) == UNION {Names(res.map[key]) : key \in DOMAIN res.map}

DroppedKeys == DOMAIN graph.grouped.absorb_to_layer.map \ DOMAIN graph.res.map

DroppedLayers == UNION {Names(graph.grouped.absorb_to_layer.map[key]) : key \in DroppedKeys}

SupportedType(key) ==
    get_module(graph.nodes, key).class \in DOMAIN supported_torch_module_to_aten

DepthwiseIfGrouped(key) ==
    LET module == get_module(graph.nodes, key)
    IN  module.class = "Conv2d" /\ module.groups > 1 =>
            module.in_channels = module.out_channels /\ module.groups = module.in_channels

\* C18 as stated: in the returned map every key and every listed layer is of
\* a supported type and, when a grouped Conv2d, depthwise; the layers of a
\* dropped entry are in no_absorb_layers; no layer is both in the returned
\* map and in no_absorb_layers.
C18_AsStated ==
    graph.done =>
        /\ \A key \in DOMAIN graph.res.map \cup KeptLayers(graph.res) :
               SupportedType(key) /\ DepthwiseIfGrouped(key)
        /\ DroppedLayers \subseteq Names(graph.no_absorb_layers)
        /\ (DOMAIN graph.res.map \cup KeptLayers(graph.res)) \cap Names(graph.no_absorb_layers) = {}

\* C18: in the map returned by remove_unsupported_layers every key is of a
\* supported type; every listed downstream layer is of a supported type and,
\* when a Conv2d with groups > 1, depthwise; every downstream layer of a
\* dropped entry is in no_absorb_layers; a downstream layer of the returned
\* map is in no_absorb_layers only if it was there before the call or is
\* also listed under a dropped key.
C18_ReturnedMapSupported ==
    graph.done =>
        /\ DOMAIN graph.res.map \subseteq DOMAIN graph.grouped.absorb_to_layer.map
        /\ \A key \in DOMAIN graph.res.map :
               /\ SupportedType(key)
               /\ graph.res.map[key] = graph.grouped.absorb_to_layer.map[key]
        /\ \A layer \in KeptLayers(graph.res) : SupportedType(layer) /\ DepthwiseIfGrouped(layer)
        /\ DroppedLayers \subseteq Names(graph.no_absorb_layers)
        /\ KeptLayers(graph.res) \cap Names(graph.no_absorb_layers)
               \subseteq Names(graph.grouped.no_absorb_layers) \cup DroppedLayers

\* an entry kept and an entry dropped by the same call
C18_Witness ==
    /\ graph.done
    /\ DOMAIN graph.res.map # {}
    /\ DroppedKeys # {}
    /\ DroppedLayers \subseteq Names(graph.no_absorb_layers)

\* ---------------------------------------------------------------------
\* CPU capability
\* ---------------------------------------------------------------------

\* C20: the CPU capability value is computed at most once per process: the
\* first use runs the detection and every later call of
\* generate_activation_observer reuses the value without running it again.
C20_DetectedAtMostOnce ==
    [][(cpu.uses >= 1 /\ cpu.exc = "none" /\ cpu'.uses = cpu.uses + 1)
       => cpu'.detections = cpu.detections]_vars

\* ---------------------------------------------------------------------
\* fold and insert
\* ---------------------------------------------------------------------

\* C21: in every reachable state of a TorchSmoothQuant object exactly one of
\* insert_mul and allow_absorb is set; a fold-mode transform inserts no
\* SQLinearWrapper, and an insert-mode transform changes no weight or bias
\* of the upstream absorbing layer.
C21_FoldInsertExclusive ==
    /\ [](sq.insert_mul # sq.allow_absorb)
    /\ [][(Called("transform") /\ last'.folding)
          => (model'.fc_wrapper # None => model.fc_wrapper # None)]_vars
    /\ [][(Called("transform") /\ ~last'.folding)
          => (/\ model'.norm_weight = model.norm_weight
              /\ model'.norm_bias = model.norm_bias)]_vars

\* an insert-mode transform has wrapped the Linear layer and left the
\* LayerNorm before it as it was
C21_Witness ==
    /\ last.op = "transform" /\ ~last.folding /\ last.ret = "model"
    /\ sq.insert_mul /\ ~sq.allow_absorb
    /\ model.fc_wrapper # None
    /\ model.fc_weight # last.model_before.fc_weight
    /\ model.norm_weight = last.model_before.norm_weight
    /\ model.norm_bias = last.model_before.norm_bias

\* the transform call recorded in l, applied to model m with object state s
TransformAlone(m, s, l) ==
    transform([Context EXCEPT !.model = m, !.sq = s], env, l.alpha, l.folding,
              l.params.percentile, l.params.op_types, l.params.scales_per_op,
              l.params.calib_iter)

\* C22: of two consecutive transform calls on an object, the second first
\* restores the weights and the module structure the model had before the
\* first, whatever the folding modes of the two calls, so that it leaves what
\* the second transform alone leaves on the original model.
C22_SecondTransformFromOriginal ==
    [][(/\ last.op = "transform" /\ last.ret = "model"
        /\ ~ScalesRecorded(last.sq_before)
        /\ last.model_before.fc_wrapper = None
        /\ Called("transform"))
       => (/\ last'.exc = TransformAlone(last.model_before, last.sq_before, last').exc
           /\ Weights(model') =
                  Weights(TransformAlone(last.model_before, last.sq_before, last').model)
           /\ model'.fc_wrapper =
                  TransformAlone(last.model_before, last.sq_before, last').model.fc_wrapper)]_vars

\* C23: for every absorbing layer and every channel the absorb scale
\* recorded by _cal_scales is the reciprocal of the weight scale recorded for
\* its downstream layers: both are finite and non-zero and their product is 1.
C23_AbsorbScaleIsReciprocal ==
    (last.op = "transform" /\ last.ret = "model") =>
        \A key \in DOMAIN sq.absorb_scales_info :
            \A i \in DOMAIN sq.absorb_to_layer[key] :
                \A c \in Channels :
                    LET absorb == sq.absorb_scales_info[key][c]
                        weight == sq.weight_scale_info[sq.absorb_to_layer[key][i]][c]
                    IN  /\ IsFinite(absorb) /\ ~IsZero(absorb)
                        /\ IsFinite(weight) /\ ~IsZero(weight)
                        /\ Mul(absorb, weight) = One

\* C24: a configuration yielded by next_tune_cfg is not changed by later
\* draws: after any number of further iterations it still carries the
\* calib_sampling_size it was yielded with.
C24_YieldedConfigKeepsSize ==
    \A i \in DOMAIN tune.yields :
        tune.op_tuning_cfg_lst[tune.yields[i].ref].calib_sampling_size =
            tune.yields[i].calib_sampling_size

\* ---------------------------------------------------------------------
\* quantization mode of an operator
\* ---------------------------------------------------------------------

\* the first mode of query_order the operator supports
FirstSupported(modes) ==
    query_order[CHOOSE k \in DOMAIN query_order :
                    /\ query_order[k] \in modes
                    /\ \A j \in 1..(k - 1) : query_order[j] \notin modes]

\* the modes under which quant_mode_wise_items lists the operator
ListedUnder(item) ==
    {k \in DOMAIN tune.quant_mode_wise_items :
        \E i \in DOMAIN tune.quant_mode_wise_items[k].items :
            tune.quant_mode_wise_items[k].items[i] = item}

\* C25: every operator that supports at least one of static, dynamic, bf16,
\* fp32 is assigned exactly one quantization mode for sampling, the first of
\* the four, in this order, that it supports; no operator is assigned two.
C25_FirstSupportedMode ==
    tune.state = "sampling" =>
        \A item \in DOMAIN tune.capability :
            IF tune.capability[item] \cap {"static", "dynamic", "bf16", "fp32"} # {}
            THEN /\ item \in DOMAIN tune.op_item_dtype_dict
                 /\ tune.op_item_dtype_dict[item] = FirstSupported(tune.capability[item])
                 /\ Cardinality(ListedUnder(item)) = 1
            ELSE /\ item \notin DOMAIN tune.op_item_dtype_dict
                 /\ ListedUnder(item) = {}

\* an operator that supports several of the modes got the first of them,
\* another that supports none of them got no mode
C25_Witness ==
    /\ tune.state = "sampling"
    /\ \E item \in DOMAIN tune.capability :
           /\ tune.capability[item] = {"bf16", "fp32"}
           /\ tune.op_item_dtype_dict[item] = "bf16"
    /\ \E item \in DOMAIN tune.capability :
           /\ tune.capability[item] = {"weight_only"}
           /\ item \notin DOMAIN tune.op_item_dtype_dict

\* the places in the value lists of the returned map where the layer is named
MapReports(name) ==
    {p \in (DOMAIN graph.res.map) \X (1..Len(graph.nodes)) :
        p[2] \in DOMAIN graph.res.map[p[1]] /\ graph.res.map[p[1]][p[2]] = name}

\* the places in no_absorb_layers where the layer is named
ListReports(name) ==
    {j \in DOMAIN graph.no_absorb_layers : graph.no_absorb_layers[j] = name}

\* the nodes of the wanted kinds that come from the layer
NodesOf(name) ==
    LET wanted == get_nodes(graph.nodes, mapping_torch_module_to_aten(graph.op_types))
    IN  {k \in DOMAIN wanted : LayerName(graph.nodes[wanted[k]]) = name}

\* C26: every quantizable node that get_absorb_to_layer finds in the traced
\* graph is reported in exactly one place, a value list of the returned map or
\* no_absorb_layers: none is left out of both and none is in both.
C26_EveryNodeReportedOnce ==
    graph.done =>
        \A n \in DOMAIN graph.nodes :
            NodesOf(LayerName(graph.nodes[n])) # {} =>
                Cardinality(MapReports(LayerName(graph.nodes[n])))
                    + Cardinality(ListReports(LayerName(graph.nodes[n]))) =
                        Cardinality(NodesOf(LayerName(graph.nodes[n])))

\* ---------------------------------------------------------------------
\* observation hooks
\* ---------------------------------------------------------------------

\* C27: Calibration.calibrate leaves no observation hook registered on the
\* model when it exits: every hook it registered is removed, whether the
\* calibration forward pass completed or raised.
C27_NoHookLeftRegistered ==
    calib.forward_hooks = {}

\* ---------------------------------------------------------------------
\* record_max_info
\* ---------------------------------------------------------------------

\* C28: with record_max_info set, transform exports the scale information
\* without changing any weight, bias or module of the model, sets
\* _smoothquant_optimized to False and records no weight or absorb scales, so
\* that a following revert changes nothing.
C28_RecordMaxInfoLeavesModel ==
    /\ [][(Called("transform") /\ sq.record_max_info)
          => (/\ Weights(model') = Weights(model)
              /\ model'.fc_wrapper = model.fc_wrapper
              /\ ~ScalesRecorded(sq')
              /\ (last'.ret = "model" =>
                     /\ model'.smoothquant_optimized = "False"
                     /\ DOMAIN sq'.absorb_to_layer \subseteq DOMAIN sq'.max_value_info
                     /\ ListedLayers(sq'.absorb_to_layer) \subseteq DOMAIN sq'.sq_scale_info))]_vars
    /\ [][(Called("revert") /\ sq.record_max_info)
          => (last'.exc = "none" /\ model' = model)]_vars

\* a transform with record_max_info has exported the scale information of
\* "fc", and a revert has followed it
C28_Witness ==
    /\ calls = 2
    /\ last.op = "revert"
    /\ sq.record_max_info
    /\ "fc" \in DOMAIN sq.sq_scale_info
    /\ model.smoothquant_optimized = "False"
    /\ Weights(model) = Weights(last.model_before)

\* ---------------------------------------------------------------------
\* revert
\* ---------------------------------------------------------------------

\* C29: revert is idempotent: after revert returns, the recorded weight-scale
\* and absorb-scale maps are empty, and a second revert, or a revert with no
\* transform applied, changes no weight, bias or module of the model.
C29_RevertIdempotent ==
    /\ [][(Called("revert") /\ last'.exc = "none") => ~ScalesRecorded(sq')]_vars
    /\ [][(Called("revert") /\ ~ScalesRecorded(sq))
          => (last'.exc = "none" /\ model' = model)]_vars
    /\ []((last.op = "revert" /\ last.exc = "none")
          => (/\ revert(Context).exc = "none"
              /\ revert(Context).model = model
              /\ revert(Context).sq = sq))

\* a revert has returned after a transform that had recorded scales and
\* changed the weights
C29_Witness ==
    /\ last.op = "revert"
    /\ last.exc = "none"
    /\ ScalesRecorded(last.sq_before)
    /\ Weights(model) # Weights(last.model_before)
    /\ ~ScalesRecorded(sq)

\* ---------------------------------------------------------------------
\* CompressionManager.CallBacks
\* ---------------------------------------------------------------------

\* the object a manager built around component passes its callbacks to
Wrapped(component) ==
    IF component.scheduler THEN "components[0]" ELSE "component"

\* C30: every CompressionManager callback passes the arguments it receives
\* unchanged to the same-named callback of the wrapped component (the first
\* component when the component is a Scheduler); in particular
\* on_after_compute_loss passes on the teacher_output it was given.
C30_CallbacksPassArguments ==
    /\ Len(train.made) = Len(train.received)
    /\ \A i \in 1..Len(train.made) :
           /\ train.received[i].by = Wrapped(train.component)
           /\ train.received[i].name = train.made[i].name
           /\ train.received[i].args = train.made[i].args

====
